---- MODULE Spec2Model ----
(***************************************************************************)
(* RizAlert admin web application: the two-factor admin authentication     *)
(* flow of app/routes.py (admin_login, setup_2fa, verify_2fa, disable_2fa, *)
(* admin_logout), the routes that read the session it issues               *)
(* (update_configuration) and the routes that change the user documents    *)
(* the flow reads (setup_admin, update_user), the routes that keep         *)
(* bookkeeping in the session (upload_profile_picture,                     *)
(* mark_notifications_read, mark_emergency_viewed), the aggregates of the  *)
(* dashboard (index) and of the reports page (reports_page), and the API   *)
(* routes of the emergencies and their responders, of the emergency        *)
(* alerts, of the sirens and of the user accounts.                         *)
(*                                                                         *)
(* The record store (Firestore), the realtime database, the identity       *)
(* provider (Firebase Auth) and the Flask session of one browser are the   *)
(* state.  Every handler is one action; a handler's adapter call may       *)
(* raise, which is the `fault' input of the action.  The responder calls   *)
(* of two workers are two steps each, the read and the write.              *)
(***************************************************************************)
EXTENDS Integers, FiniteSets, Sequences, TLC

\* ------------------------------------------------------------------ bounds
\* The last 30-second TOTP time step the clock reaches (steps 0..MaxTime).
MaxTime == 1
\* How many distinct secrets pyotp.random_base32() can draw (1..NumSecrets).
NumSecrets == 2
\* The size of the one-time-code space (6 decimal digits in pyotp).
NumCodes == 3
\* How many notification ids, and how many emergency ids, there are.
MaxNotifs == 1
\* The most emergency documents the collection holds when a page is served.
MaxEmergencies == 2

\* ------------------------------------------------------------ value spaces
None == "none"
NoSecret == 0
NoTime == -1
NoCode == -1

UIDs == {"uid1", "uid2"}
Times == 0..MaxTime
Secrets == 1..NumSecrets
Codes == 0..(NumCodes - 1)
CodeInputs == Codes \cup {NoCode}
Roles == {"admin", "citizen"}
Passwords == {"pw1", "pw2"}
Faults == {"none", "identity", "store_read", "store_write"}

\* The e-mail, username and password each account was created with.
EmailOf(u) == IF u = "uid1" THEN "amy@x" ELSE "bob@x"
UsernameOf(u) == IF u = "uid1" THEN "amy" ELSE "bob"
PasswordOf(u) == IF u = "uid1" THEN "pw1" ELSE "pw2"

Emails == {"amy@x", "bob@x", "zed@x"}
Usernames == {"amy"}
Identifiers == Emails \cup Usernames \cup {None}

\* '@' in email
HasAt(s) == s \in Emails

\* ---------------------------------------------------------------- calendar
\* datetime at the granularity of a day: a date is a year, a month, a day,
\* and every instant of the model falls at the same time of its day.
Date(y, m, d) == [year |-> y, month |-> m, day |-> d]

\* The first year of the calendar; ordinals count days from its 1 January.
BaseYear == 2024

IsLeap(y) == (y % 4 = 0 /\ y % 100 # 0) \/ y % 400 = 0

DaysInYear(y) == IF IsLeap(y) THEN 366 ELSE 365

DaysInMonth(y, m) ==
    IF m = 2 THEN (IF IsLeap(y) THEN 29 ELSE 28)
    ELSE IF m \in {4, 6, 9, 11} THEN 30 ELSE 31

RECURSIVE DaysBeforeYear(_)
DaysBeforeYear(y) ==
    IF y <= BaseYear THEN 0 ELSE DaysBeforeYear(y - 1) + DaysInYear(y - 1)

RECURSIVE DaysBeforeMonth(_, _)
DaysBeforeMonth(y, m) ==
    IF m <= 1 THEN 0 ELSE DaysBeforeMonth(y, m - 1) + DaysInMonth(y, m - 1)

\* date.toordinal(), counted from the first day of BaseYear.
ToOrdinal(d) == DaysBeforeYear(d.year) + DaysBeforeMonth(d.year, d.month) + d.day - 1

RECURSIVE OrdinalInMonth(_, _, _)
OrdinalInMonth(n, y, m) ==
    IF n < DaysInMonth(y, m) THEN Date(y, m, n + 1)
    ELSE OrdinalInMonth(n - DaysInMonth(y, m), y, m + 1)

RECURSIVE OrdinalInYear(_, _)
OrdinalInYear(n, y) ==
    IF n < DaysInYear(y) THEN OrdinalInMonth(n, y, 1)
    ELSE OrdinalInYear(n - DaysInYear(y), y + 1)

\* date.fromordinal()
FromOrdinal(n) == OrdinalInYear(n, BaseYear)

\* d - timedelta(days=k) and d + timedelta(days=k)
MinusDays(d, k) == FromOrdinal(ToOrdinal(d) - k)
PlusDays(d, k) == FromOrdinal(ToOrdinal(d) + k)

\* d.replace(day=1, hour=0, minute=0, second=0, microsecond=0)
FirstOfMonth(d) == [d EXCEPT !.day = 1]

\* d1 <= d2 and d1 < d2 on instants
DateLeq(d1, d2) == ToOrdinal(d1) <= ToOrdinal(d2)
DateLess(d1, d2) == ToOrdinal(d1) < ToOrdinal(d2)

VARIABLES
    now,        \* the current 30-second time step
    auth,       \* identity provider: the uids that have an account
    users,      \* record store, collection 'users': uid -> document
    config,     \* record store, configuration/emergency_settings
    session,    \* the Flask session of the browser
    response,   \* the response to the latest request
    emergencies,  \* record store, collection 'emergency', in stream order
    current_date,  \* the calendar day (UTC) of the clock
    alerts,     \* record store, collection 'emergency_alerts': id -> document
    sirens,     \* realtime database: the three emergency_siren_<type> flags
    calls,      \* the responder-list calls in flight, one per worker
    identity_log  \* the calls the latest POST /api/users made on the identity provider

vars == <<now, auth, users, config, session, response, emergencies, current_date,
         alerts, sirens, calls, identity_log>>

\* ------------------------------------------------------- documents, session
NoDoc ==
    [exists |-> FALSE, email |-> None, username |-> None, role |-> None,
     two_factor_secret |-> NoSecret, two_factor_enabled |-> FALSE,
     lastLogin |-> NoTime, barangay |-> None]

\* The document User.create_user writes: no two-factor fields, no lastLogin.
CreatedDoc(u, r) ==
    [exists |-> TRUE, email |-> EmailOf(u), username |-> UsernameOf(u), role |-> r,
     two_factor_secret |-> NoSecret, two_factor_enabled |-> FALSE,
     lastLogin |-> NoTime, barangay |-> None]

EmptySession ==
    [logged_in |-> FALSE, user_id |-> None, username |-> None, email |-> None,
     role |-> None, requires_2fa_setup |-> FALSE, last_login |-> NoTime,
     pending_login_uid |-> None, pending_login_email |-> None,
     temp_2fa_secret |-> NoSecret,
     read_notifications |-> {}, viewed_emergencies |-> {}]

DefaultConfig == [emergency_number |-> "911", updated_at |-> NoTime, updated_by |-> None]

Resp(op, status, body) == [op |-> op, status |-> status, body |-> body]

\* What a handler leaves behind: the session, the users collection, the response.
Outcome(s, us, r) == [session |-> s, users |-> us, response |-> r]

\* ------------------------------------------------------------------- TOTP
\* pyotp.TOTP(secret).at(t): the code of a secret at time step t.
Totp(secret, t) == (secret * 2 + t) % NumCodes

\* Mutant of TotpVerify: every submitted code passes.
TotpVerify_anyCode(secret, code, t) == code # NoCode

\* Mutant of TotpVerify: the codes of the previous and the next step pass too
\* (valid_window=1).
TotpVerify_window1(secret, code, t) ==
    code # NoCode /\ \E d \in {-1, 0, 1} : code = Totp(secret, t + d)

\* pyotp.TOTP(secret).verify(code): valid_window is left at its default 0,
\* so the code is compared with the code of the current step only.
TotpVerify(secret, code, t) == code # NoCode /\ code = Totp(secret, t)

\* ------------------------------------------------------------ admin_login
\* db.collection('users').where('email', '==', email): the username branch
\* of admin_login searches the email field for the submitted identifier.
UsersWhereEmail(identifier) ==
    {u \in UIDs : users[u].exists /\ users[u].email = identifier}

\* auth.get_user_by_email(email) raises ValueError (not UserNotFoundError)
\* for a value that is not a well-formed e-mail address, None included.
AuthEmailMalformed(email) == ~HasAt(email)

\* auth.get_user_by_email(email): the uid of the account, None when
\* UserNotFoundError is raised.
AuthGetUserByEmail(email) ==
    IF \E u \in auth : EmailOf(u) = email
    THEN CHOOSE u \in auth : EmailOf(u) = email
    ELSE None

\* Mutant of IsAdmin: the role is not looked at.
IsAdmin_always(doc) == doc.exists

\* user_data.get('role') != 'admin' is the refusal; this is its negation.
IsAdmin(doc) == doc.role = "admin"

\* Mutant of NeedsSetup: the `not' before two_factor_enabled is lost.
NeedsSetup_flagInverted(doc) ==
    doc.two_factor_secret = NoSecret /\ doc.two_factor_enabled

\* not two_factor_secret and not two_factor_enabled
NeedsSetup(doc) == doc.two_factor_secret = NoSecret /\ ~doc.two_factor_enabled

\* not two_factor_code
CodeMissing(code) == code = NoCode

\* The one-time session of an admin who has not set up 2FA.
ProvisionalSession(s, uid, doc, email) ==
    [s EXCEPT !.logged_in = TRUE, !.user_id = uid, !.username = doc.username,
              !.email = email, !.role = "admin", !.requires_2fa_setup = TRUE,
              !.last_login = now]

\* Mutant of PendingSession: the first step already logs the account in.
PendingSession_grants(s, uid, email) ==
    [s EXCEPT !.pending_login_uid = uid, !.pending_login_email = email,
              !.logged_in = TRUE, !.user_id = uid]

\* First step of a 2FA login: only the pending account is remembered.
PendingSession(s, uid, email) ==
    [s EXCEPT !.pending_login_uid = uid, !.pending_login_email = email]

\* Mutant of FullSession: the pending login is not popped.
FullSession_keepsPending(s, uid, doc, email) ==
    [s EXCEPT !.logged_in = TRUE, !.user_id = uid, !.username = doc.username,
              !.email = email, !.role = "admin", !.last_login = now]

\* The session of a completed 2FA login.
FullSession(s, uid, doc, email) ==
    [s EXCEPT !.pending_login_uid = None, !.pending_login_email = None,
              !.logged_in = TRUE, !.user_id = uid, !.username = doc.username,
              !.email = email, !.role = "admin", !.last_login = now]

\* user_ref.update({'lastLogin': SERVER_TIMESTAMP})
RecordLastLogin(us, uid) == [us EXCEPT ![uid].lastLogin = now]

\* Mutant of LoginErrorResponse: every exception is answered as
\* UserNotFoundError is.
LoginErrorResponse_always401(exc) == Resp("admin_login", 401, "Invalid credentials")

\* except auth.UserNotFoundError / except Exception of admin_login
LoginErrorResponse(exc) ==
    IF exc = "UserNotFoundError"
    THEN Resp("admin_login", 401, "Invalid credentials")
    ELSE Resp("admin_login", 500, "An error occurred during login")

\* admin_login from the point where the e-mail is known.
LoginWithEmail(email, code, fault) ==
    LET same(r) == Outcome(session, users, r) IN
    IF fault = "identity" \/ AuthEmailMalformed(email)
    THEN same(LoginErrorResponse("Exception"))
    ELSE IF AuthGetUserByEmail(email) = None
    THEN same(LoginErrorResponse("UserNotFoundError"))
    ELSE
    LET uid == AuthGetUserByEmail(email)
        doc == users[uid]
    IN  IF fault = "store_read"
        THEN same(LoginErrorResponse("Exception"))
        ELSE IF ~doc.exists
        THEN same(Resp("admin_login", 401, "User not found"))
        ELSE IF ~IsAdmin(doc)
        THEN same(Resp("admin_login", 403, "Access denied. Admin role required."))
        ELSE IF NeedsSetup(doc)
        THEN Outcome(ProvisionalSession(session, uid, doc, email), users,
                     Resp("admin_login", 200, "2FA setup required"))
        ELSE IF CodeMissing(code)
        THEN Outcome(PendingSession(session, uid, email), users,
                     Resp("admin_login", 200, "Two-factor authentication is required"))
        ELSE IF doc.two_factor_secret = NoSecret
        THEN same(LoginErrorResponse("Exception"))
        ELSE IF ~TotpVerify(doc.two_factor_secret, code, now)
        THEN same(Resp("admin_login", 400, "Invalid 2FA code"))
        ELSE IF fault = "store_write"
        THEN Outcome(FullSession(session, uid, doc, email), users,
                     LoginErrorResponse("Exception"))
        ELSE Outcome(FullSession(session, uid, doc, email),
                     RecordLastLogin(users, uid),
                     Resp("admin_login", 200, "Login successful"))

\* POST /admin/login.  The password is read from the request and never used.
AdminLoginOutcome(identifier, password, code, fault) ==
    IF identifier # None /\ ~HasAt(identifier)
    THEN IF fault = "store_read"
         THEN Outcome(session, users, LoginErrorResponse("Exception"))
         ELSE IF UsersWhereEmail(identifier) = {}
         THEN Outcome(session, users, Resp("admin_login", 401, "Invalid credentials"))
         ELSE LoginWithEmail(identifier, code, fault)
    ELSE LoginWithEmail(identifier, code, fault)

admin_login(identifier, password, code, fault) ==
    LET out == AdminLoginOutcome(identifier, password, code, fault) IN
    /\ session' = out.session
    /\ users' = out.users
    /\ response' = out.response
    /\ UNCHANGED <<now, auth, config, emergencies, current_date,
               alerts, sirens, calls, identity_log>>

\* ------------------------------------------------------------ enrollment
\* not session.get('logged_in') or not session.get('user_id')
NotAuthenticated(s) == ~s.logged_in \/ s.user_id = None

\* GET /admin/2fa/setup: a fresh secret is kept in the session only.  The
\* read of the user's e-mail is wrapped in its own try/except and changes
\* nothing but the label of the QR code.
Setup2faOutcome(secret) ==
    IF NotAuthenticated(session)
    THEN Outcome(session, users, Resp("setup_2fa", 401, "Not authenticated"))
    ELSE Outcome([session EXCEPT !.temp_2fa_secret = secret], users,
                 Resp("setup_2fa", 200, "qr_code"))

setup_2fa(secret) ==
    LET out == Setup2faOutcome(secret) IN
    /\ session' = out.session
    /\ users' = out.users
    /\ response' = out.response
    /\ UNCHANGED <<now, auth, config, emergencies, current_date,
               alerts, sirens, calls, identity_log>>

\* Mutant of EnrolledDoc: the enabled flag is not written.
EnrolledDoc_secretOnly(doc, secret) == [doc EXCEPT !.two_factor_secret = secret]

\* Mutant of EnrolledDoc: the secret is not written.
EnrolledDoc_flagOnly(doc, secret) == [doc EXCEPT !.two_factor_enabled = TRUE]

\* user_ref.update({'two_factor_secret': secret, 'two_factor_enabled': True, ...})
EnrolledDoc(doc, secret) ==
    [doc EXCEPT !.two_factor_secret = secret, !.two_factor_enabled = TRUE]

\* Mutant of VerifyRefusedSession: the candidate secret is popped.
VerifyRefusedSession_pops(s) == [s EXCEPT !.temp_2fa_secret = NoSecret]

\* The session after a verify_2fa that was refused: nothing is popped.
VerifyRefusedSession(s) == s

\* POST /admin/2fa/verify.  DocumentReference.update raises NotFound for a
\* document that does not exist.
Verify2faOutcome(code, fault) ==
    LET secret == session.temp_2fa_secret
        uid == session.user_id
    IN  IF NotAuthenticated(session)
        THEN Outcome(session, users, Resp("verify_2fa", 401, "Not authenticated"))
        ELSE IF secret = NoSecret
        THEN Outcome(session, users, Resp("verify_2fa", 400, "2FA not set up"))
        ELSE IF TotpVerify(secret, code, now)
        THEN IF fault = "store_write" \/ ~users[uid].exists
             THEN Outcome(session, users, Resp("verify_2fa", 500, "str(e)"))
             ELSE Outcome([session EXCEPT !.temp_2fa_secret = NoSecret],
                          [users EXCEPT ![uid] = EnrolledDoc(@, secret)],
                          Resp("verify_2fa", 200, "2FA enabled successfully"))
        ELSE Outcome(VerifyRefusedSession(session), users,
                     Resp("verify_2fa", 400, "Invalid verification code"))

verify_2fa(code, fault) ==
    LET out == Verify2faOutcome(code, fault) IN
    /\ session' = out.session
    /\ users' = out.users
    /\ response' = out.response
    /\ UNCHANGED <<now, auth, config, emergencies, current_date,
               alerts, sirens, calls, identity_log>>

\* Mutant of DisabledDoc: the secret is not deleted.
DisabledDoc_keepsSecret(doc) == [doc EXCEPT !.two_factor_enabled = FALSE]

\* user_ref.update({'two_factor_secret': DELETE_FIELD, 'two_factor_enabled': False, ...})
DisabledDoc(doc) ==
    [doc EXCEPT !.two_factor_secret = NoSecret, !.two_factor_enabled = FALSE]

\* POST /admin/2fa/disable
Disable2faOutcome(code, fault) ==
    LET uid == session.user_id IN
    IF NotAuthenticated(session)
    THEN Outcome(session, users, Resp("disable_2fa", 401, "Not authenticated"))
    ELSE IF fault = "store_read"
    THEN Outcome(session, users, Resp("disable_2fa", 500, "str(e)"))
    ELSE IF ~users[uid].exists
    THEN Outcome(session, users, Resp("disable_2fa", 404, "User not found"))
    ELSE IF users[uid].two_factor_secret = NoSecret
    THEN Outcome(session, users, Resp("disable_2fa", 400, "2FA not enabled"))
    ELSE IF TotpVerify(users[uid].two_factor_secret, code, now)
    THEN IF fault = "store_write"
         THEN Outcome(session, users, Resp("disable_2fa", 500, "str(e)"))
         ELSE Outcome(session, [users EXCEPT ![uid] = DisabledDoc(@)],
                      Resp("disable_2fa", 200, "2FA disabled successfully"))
    ELSE Outcome(session, users, Resp("disable_2fa", 400, "Invalid verification code"))

disable_2fa(code, fault) ==
    LET out == Disable2faOutcome(code, fault) IN
    /\ session' = out.session
    /\ users' = out.users
    /\ response' = out.response
    /\ UNCHANGED <<now, auth, config, emergencies, current_date,
               alerts, sirens, calls, identity_log>>

\* session.clear(): every key of the session is removed.
ClearedSession(s) == EmptySession

\* GET /admin/logout: session.clear()
admin_logout ==
    /\ session' = ClearedSession(session)
    /\ response' = Resp("admin_logout", 302, "admin_login")
    /\ UNCHANGED <<now, auth, users, config, emergencies, current_date,
               alerts, sirens, calls, identity_log>>

\* ---------------------------------------------------------- configuration
EmergencyNumbers == {"", "abc", "911"}

\* emergency_number.replace('+','').replace('-','').replace(' ','').isdigit()
IsDialable(number) == number = "911"

\* POST /configuration/update: the only check of the caller is logged_in.
\* What the handler leaves behind: the configuration document, the response.
UpdateConfigurationOutcome(number, fault) ==
    IF ~session.logged_in
    THEN [config |-> config,
          response |-> Resp("update_configuration", 401, "Not authenticated")]
    ELSE IF number = ""
    THEN [config |-> config,
          response |-> Resp("update_configuration", 400, "Emergency number is required")]
    ELSE IF ~IsDialable(number)
    THEN [config |-> config,
          response |-> Resp("update_configuration", 400, "Emergency number must contain only digits")]
    ELSE IF fault = "store_write"
    THEN [config |-> config,
          response |-> Resp("update_configuration", 500, "Failed to update configuration")]
    ELSE [config |-> [emergency_number |-> number, updated_at |-> now,
                      updated_by |-> session.user_id],
          response |-> Resp("update_configuration", 200, "Configuration updated successfully")]

update_configuration(number, fault) ==
    /\ config' = UpdateConfigurationOutcome(number, fault).config
    /\ response' = UpdateConfigurationOutcome(number, fault).response
    /\ UNCHANGED <<now, auth, users, session, emergencies, current_date,
               alerts, sirens, calls, identity_log>>

\* ------------------------------------------------------------------ profile
\* The uploaded file: none, one with an empty name, one of a type that is
\* not allowed, an image.
ProfileFiles == {"absent", "", "a.exe", "a.png"}
UploadFaults == {"none", "store_write"}

\* POST /admin/profile/upload-picture.  The picture's URL goes to the
\* profile_picture field of the session's account, a field no handler of
\* the model reads; updating a document that does not exist raises.
UploadProfilePictureResponse(file, fault) ==
    IF NotAuthenticated(session)
    THEN Resp("upload_profile_picture", 401, "Not authenticated")
    ELSE IF file = "absent"
    THEN Resp("upload_profile_picture", 400, "No file provided")
    ELSE IF file = ""
    THEN Resp("upload_profile_picture", 400, "No file selected")
    ELSE IF file # "a.png"
    THEN Resp("upload_profile_picture", 400, "Invalid file type")
    ELSE IF fault = "store_write" \/ ~users[session.user_id].exists
    THEN Resp("upload_profile_picture", 500, "Failed to upload profile picture")
    ELSE Resp("upload_profile_picture", 200, "Profile picture updated successfully")

upload_profile_picture(file, fault) ==
    /\ response' = UploadProfilePictureResponse(file, fault)
    /\ UNCHANGED <<now, auth, users, config, session, emergencies, current_date,
               alerts, sirens, calls, identity_log>>

\* ------------------------------------------------- notification bookkeeping
\* The notification ids the alerts and emergencies of the store give rise to,
\* and the emergency ids a client can name.
NotifIds == 1..MaxNotifs
EmergencyIds == 1..MaxNotifs
\* data.get('emergency_id') of a body that names none.
NoEmergency == 0

\* POST /api/notifications/mark-read: the ids of all current notifications
\* (current: what the store holds when the request is served) join the
\* session's read set.  No check of the caller.
mark_notifications_read(current, fault) ==
    /\ IF fault = "store_read"
       THEN /\ response' = Resp("mark_notifications_read", 200, "failure")
            /\ UNCHANGED session
       ELSE /\ response' = Resp("mark_notifications_read", 200, "success")
            /\ session' = [session EXCEPT !.read_notifications = @ \cup current]
    /\ UNCHANGED <<now, auth, users, config, emergencies, current_date,
               alerts, sirens, calls, identity_log>>

\* POST /api/emergencies/mark-viewed: the named emergency joins the session's
\* viewed set.  No check of the caller.
mark_emergency_viewed(emergency_id) ==
    /\ IF emergency_id = NoEmergency
       THEN /\ response' = Resp("mark_emergency_viewed", 200, "Emergency ID required")
            /\ UNCHANGED session
       ELSE /\ response' = Resp("mark_emergency_viewed", 200, "success")
            /\ session' = [session EXCEPT !.viewed_emergencies = @ \cup {emergency_id}]
    /\ UNCHANGED <<now, auth, users, config, emergencies, current_date,
               alerts, sirens, calls, identity_log>>

\* ------------------------------------------------------ account management
\* GET /setup-admin/<email>/<password>: no check of the caller.  The account
\* is looked up (created when absent) and the document is written with
\* merge=True, so fields the literal does not name (two_factor_secret) stay.
SetupAdminDoc(doc, u) ==
    [doc EXCEPT !.exists = TRUE, !.email = EmailOf(u), !.username = UsernameOf(u),
                !.role = "admin", !.two_factor_enabled = FALSE, !.lastLogin = now]

setup_admin(u, fault) ==
    /\ IF fault = "identity"
       THEN /\ response' = Resp("setup_admin", 500, "str(e)")
            /\ UNCHANGED <<auth, users>>
       ELSE IF fault = "store_write"
       THEN /\ response' = Resp("setup_admin", 500, "str(e)")
            /\ auth' = auth \cup {u}
            /\ UNCHANGED users
       ELSE /\ response' = Resp("setup_admin", 200, "Admin user created/updated")
            /\ auth' = auth \cup {u}
            /\ users' = [users EXCEPT ![u] = SetupAdminDoc(@, u)]
    /\ UNCHANGED <<now, config, session, emergencies, current_date,
               alerts, sirens, calls, identity_log>>

\* PUT /api/users/<id> with a body that names the role only: no check of
\* the caller, and nothing to update in the identity provider.
update_user(u, role, fault) ==
    /\ IF fault = "store_read"
       THEN /\ response' = Resp("update_user", 500, "Internal Server Error")
            /\ UNCHANGED users
       ELSE IF ~users[u].exists
       THEN /\ response' = Resp("update_user", 404, "User not found")
            /\ UNCHANGED users
       ELSE IF fault = "store_write"
       THEN /\ response' = Resp("update_user", 500, "Failed to update user")
            /\ UNCHANGED users
       ELSE /\ response' = Resp("update_user", 200, "Updated")
            /\ users' = [users EXCEPT ![u].role = role]
    /\ UNCHANGED <<now, auth, config, session, emergencies, current_date,
               alerts, sirens, calls, identity_log>>

\* ------------------------------------------------------------------ clock
\* ------------------------------------------------------------ emergencies
\* CaseType: the names of the members, and the display value of each.
CaseTypeNames == {"TYPHOON", "FIRE", "CRIME", "FLOOD", "MEDICAL", "DISASTER"}

CaseTypeValue(name) ==
    CASE name = "TYPHOON" -> "Typhoon"
      [] name = "FIRE" -> "Fire"
      [] name = "CRIME" -> "Crime"
      [] name = "FLOOD" -> "Flood"
      [] name = "MEDICAL" -> "Medical"
      [] name = "DISASTER" -> "Disaster"

\* The statuses the aggregates tell apart: RESOLVED and one that is not.
StatusNames == {"PENDING", "RESOLVED"}

\* What the created_at field of an emergency document can hold:
\*   absent      the document has no such key
\*   null        None
\*   timestamp   a Firestore timestamp, read as a timezone-aware datetime
\*   iso         a string datetime.fromisoformat parses
\*   unparsable  a string datetime.fromisoformat rejects
\*   number      a non-zero number: neither a string nor a timestamp
NoDate == Date(0, 0, 0)
CreatedAt(kind, date) == [kind |-> kind, date |-> date]
MalformedKinds == {"absent", "null", "unparsable", "number"}
DatedKinds == {"timestamp", "iso"}

\* Emergency.create_emergency's document, as far as the routes read it; the
\* list of responders starts empty.
EmergencyDoc(created_at, case_type, status, isActive, user_id) ==
    [created_at |-> created_at, case_type |-> case_type, status |-> status,
     isActive |-> isActive, user_id |-> user_id, responders |-> <<>>]

\* ------------------------------------------------------------- dashboard
\* The class of the sort key x.get('created_at', datetime.min): keys of
\* two classes cannot be compared, and None cannot be compared at all.
SortKeyClass(created_at) ==
    CASE created_at.kind = "absent" -> "naive datetime"
      [] created_at.kind = "null" -> "None"
      [] created_at.kind = "timestamp" -> "aware datetime"
      [] created_at.kind \in {"iso", "unparsable"} -> "str"
      [] created_at.kind = "number" -> "number"

\* sorted(alerts, key=...) over the active emergencies that have a case
\* type raises TypeError when it compares two keys that have no order.
SortRaises(es) ==
    \E i, j \in DOMAIN es :
        /\ i < j
        /\ es[i].isActive /\ es[j].isActive
        /\ \/ SortKeyClass(es[i].created_at) # SortKeyClass(es[j].created_at)
           \/ SortKeyClass(es[i].created_at) = "None"

\* The loops of the resolved rates: fromisoformat has no handler (ValueError
\* on a string it rejects), and created_at >= one_month_ago raises TypeError
\* on a number.
RateRaises(es) == \E i \in DOMAIN es : es[i].created_at.kind \in {"unparsable", "number"}

\* timedelta(days=30)
WindowDays == 30

\* created_at and created_at >= one_month_ago
SinceOneMonthAgo(created_at) ==
    /\ created_at.kind \in DatedKinds
    /\ DateLeq(MinusDays(current_date, WindowDays), created_at.date)

\* The counted cases of the given case types.
Cases(es, types) ==
    Cardinality({n \in DOMAIN es :
                    /\ SinceOneMonthAgo(es[n].created_at)
                    /\ es[n].case_type \in types})

\* Mutant of ResolvedCases: the resolved emergencies are counted whatever
\* their creation time.
ResolvedCases_anyTime(es, types) ==
    Cardinality({n \in DOMAIN es :
                    /\ es[n].case_type \in types
                    /\ es[n].status = "RESOLVED"})

\* The counted cases that are RESOLVED.
ResolvedCases(es, types) ==
    Cardinality({n \in DOMAIN es :
                    /\ SinceOneMonthAgo(es[n].created_at)
                    /\ es[n].case_type \in types
                    /\ es[n].status = "RESOLVED"})

\* round(x, 1) of x = resolved / cases * 100, in tenths of a percent
\* (round half to even).
RoundTenths(resolved, cases) ==
    LET q == (resolved * 1000) \div cases
        r == (resolved * 1000) % cases
    IN  IF 2 * r > cases \/ (2 * r = cases /\ q % 2 = 1) THEN q + 1 ELSE q

\* (resolved / cases * 100) if cases > 0 else 0
ResolvedRate(es, types) ==
    IF Cases(es, types) > 0
    THEN RoundTenths(ResolvedCases(es, types), Cases(es, types))
    ELSE 0

\* The keys yearly_stats starts with.
YearlyKeys == {"Fire", "Crime", "Medical", "Disaster"}

\* The key the if/elif chain increments for a case type name.
YearlyLabel(name) ==
    CASE name = "TYPHOON" -> "Typhoon"
      [] name = "FIRE" -> "Fire"
      [] name = "CRIME" -> "Crime"
      [] name = "FLOOD" -> "Flood"
      [] name = "DISASTER" -> "Disaster"
      [] name = "MEDICAL" -> "Medical"

\* The yearly loop: a string that does not parse becomes None, and anything
\* that is not a datetime is passed over.
InCurrentYear(created_at) ==
    created_at.kind \in DatedKinds /\ created_at.date.year = current_date.year

\* yearly_stats[label] += 1 raises KeyError for a label that is no key.
YearlyRaises(es) ==
    \E i \in DOMAIN es :
        InCurrentYear(es[i].created_at) /\ YearlyLabel(es[i].case_type) \notin YearlyKeys

YearlyStats(es) ==
    [label \in YearlyKeys |->
        Cardinality({n \in DOMAIN es :
                        /\ InCurrentYear(es[n].created_at)
                        /\ YearlyLabel(es[n].case_type) = label})]

\* An exception no handler catches: Flask answers 500.
Unhandled(op) == Resp(op, 500, "Internal Server Error")

\* GET /: the rendering arguments of the statistics cards and of the yearly
\* chart, rates in tenths of a percent.  The list of recent cases parses
\* created_at as the rate loops do, so it raises nothing they have not.
IndexResponse(es) ==
    IF SortRaises(es) \/ RateRaises(es) \/ YearlyRaises(es)
    THEN Unhandled("index")
    ELSE Resp("index", 200,
              [medical_resolved_rate |-> ResolvedRate(es, {"MEDICAL"}),
               fire_resolved_rate |-> ResolvedRate(es, {"FIRE"}),
               disaster_resolved_rate |-> ResolvedRate(es, {"TYPHOON", "FLOOD", "DISASTER"}),
               crime_resolved_rate |-> ResolvedRate(es, {"CRIME"}),
               yearly_stats |-> YearlyStats(es),
               current_year |-> current_date.year])

index ==
    /\ response' = IndexResponse(emergencies)
    /\ UNCHANGED <<now, auth, users, config, session, emergencies, current_date,
               alerts, sirens, calls, identity_log>>

\* --------------------------------------------------------------- reports
\* barangays: the barangays of Rizal, Nueva Ecija.
Barangays ==
    {"Adela", "Aguas", "Magsikap", "Malawaan", "Manoot", "Pitogo", "Rizal",
     "Salvacion", "San Pedro", "Sto Nino", "Rumbang"}

\* The barangay field of a user document: None, the empty string, and
\* spellings with other case, with padding, of no barangay of the list.
BarangayValues == {None, "", "Rizal", " rizal ", "ADELA", "San Pedro ", "Quezon"}

\* request.args.get('barangay', '')
BarangayFilters == {"", " RIZAL ", "Adela"}

\* str.strip() on the strings of the model.
Strip(str) ==
    CASE str = " rizal " -> "rizal"
      [] str = " RIZAL " -> "RIZAL"
      [] str = "San Pedro " -> "San Pedro"
      [] OTHER -> str

\* Mutant of Lower: the case is kept.
Lower_keepsCase(str) == str

\* str.lower() on the strings of the model.
Lower(str) ==
    CASE str = "Adela" -> "adela"
      [] str = "ADELA" -> "adela"
      [] str = "Aguas" -> "aguas"
      [] str = "Magsikap" -> "magsikap"
      [] str = "Malawaan" -> "malawaan"
      [] str = "Manoot" -> "manoot"
      [] str = "Pitogo" -> "pitogo"
      [] str = "Rizal" -> "rizal"
      [] str = "RIZAL" -> "rizal"
      [] str = "Salvacion" -> "salvacion"
      [] str = "San Pedro" -> "san pedro"
      [] str = "Sto Nino" -> "sto nino"
      [] str = "Rumbang" -> "rumbang"
      [] str = "Quezon" -> "quezon"
      [] OTHER -> str

\* u.get('barangay'): neither None nor the empty string.
HasBarangay(doc) == doc.barangay \notin {None, ""}

\* User.get_all(): the ids of the documents of the collection.
AllUsers == {u \in UIDs : users[u].exists}

\* barangay_stats[barangay]
BarangayStats ==
    [barangay \in Barangays |->
        Cardinality({u \in AllUsers :
                        /\ HasBarangay(users[u])
                        /\ Lower(Strip(users[u].barangay)) = Lower(barangay)})]

\* The users the filter keeps.
FilteredUsers(filter_barangay) ==
    IF filter_barangay = "" THEN AllUsers
    ELSE {u \in AllUsers :
             /\ HasBarangay(users[u])
             /\ Lower(Strip(users[u].barangay)) = Lower(Strip(filter_barangay))}

\* enriched_emergencies: the emergencies whose reporting user the filter
\* keeps, in stream order.
EnrichedEmergencies(filter_barangay) ==
    SelectSeq(emergencies, LAMBDA e : e.user_id \in FilteredUsers(filter_barangay))

\* month_start and month_end of the bucket of range index i.
MonthStart(i) == FirstOfMonth(MinusDays(current_date, i * 30))
MonthEnd(i) == FirstOfMonth(PlusDays(MonthStart(i), 32))

\* Only a datetime is looked at: month_start <= created_at < month_end.
InBucket(created_at, i) ==
    /\ created_at.kind = "timestamp"
    /\ DateLeq(MonthStart(i), created_at.date)
    /\ DateLess(created_at.date, MonthEnd(i))

\* monthly_data: for i in range(5, -1, -1), the month of month_start (the
\* label is its strftime('%b %Y')) and the count.
MonthlyData(es) ==
    [k \in 1..6 |->
        [year |-> MonthStart(6 - k).year,
         month |-> MonthStart(6 - k).month,
         count |-> Cardinality({n \in DOMAIN es : InBucket(es[n].created_at, 6 - k)})]]

\* GET /reports: the rendering arguments the model keeps.  No value of the
\* model makes the body raise, so the page of the except clause is not
\* rendered.
ReportsResponse(filter_barangay) ==
    Resp("reports_page", 200,
         [total_emergencies |-> Len(EnrichedEmergencies(filter_barangay)),
          overall_emergencies |-> Len(emergencies),
          total_users |-> Cardinality(FilteredUsers(filter_barangay)),
          overall_users |-> Cardinality(AllUsers),
          barangay_stats |-> BarangayStats,
          monthly_data |-> MonthlyData(EnrichedEmergencies(filter_barangay)),
          filter_barangay |-> filter_barangay])

reports_page(filter_barangay) ==
    /\ response' = ReportsResponse(filter_barangay)
    /\ UNCHANGED <<now, auth, users, config, session, emergencies, current_date,
               alerts, sirens, calls, identity_log>>

\* ------------------------------------------------------ emergency records
\* EmergencyStatus: the names of the members, and the display value of each.
EmergencyStatusNames ==
    {"PENDING", "IN_PROGRESS", "UNDER_INVESTIGATION", "MONITORING", "RESOLVED"}

EmergencyStatusValue(name) ==
    CASE name = "PENDING" -> "Pending"
      [] name = "IN_PROGRESS" -> "In Progress"
      [] name = "UNDER_INVESTIGATION" -> "Under Investigation"
      [] name = "MONITORING" -> "Monitoring"
      [] name = "RESOLVED" -> "Resolved"

\* An optional value of a request body: <<>> when the key is absent or
\* null, <<v>> when it carries v.
Absent == <<>>
Given(v) == <<v>>

\* The most responder entries the list of one emergency holds.
MaxResponders == 2

\* The values the requests of the model carry: a member name and a string
\* that is no member name, for the case type and for the status; a user id
\* that has a document and one that has none.
RequestCaseTypes == {"FIRE", "EARTHQUAKE"}
RequestStatuses == {"RESOLVED", "CLOSED"}
RequestUserIds == {"uid1", "uid9"}
ResponderStatuses == {"MONITORING"}

\* User.get_by_id(user_id): whether the document exists.
UserExists(user_id) == user_id \in UIDs /\ users[user_id].exists

\* Emergency.get_by_id(id): the id of a document is its place in the stream.
EmergencyExists(es, id) == id \in DOMAIN es

\* The entry add_responder_to_emergency builds from the request body.
ResponderData(responder_id, status, isArrived) ==
    [responder_id |-> responder_id,
     response_datetime |-> now,
     status |-> IF status = None THEN "IN_PROGRESS" ELSE status,
     isArrived |-> IF isArrived = Absent THEN FALSE ELSE isArrived[1]]

\* Emergency.add_responder: responders.append(responder_data).
AddResponder(responders, responder_data) == Append(responders, responder_data)

\* The first entry of the responder, 0 when the loop meets none.
FirstEntryOf(responders, responder_id) ==
    IF \E n \in DOMAIN responders : responders[n].responder_id = responder_id
    THEN CHOOSE n \in DOMAIN responders :
            /\ responders[n].responder_id = responder_id
            /\ \A m \in 1..(n - 1) : responders[m].responder_id # responder_id
    ELSE 0

\* The fields update_responder_status sets on the entry it found.
UpdatedEntry(entry, status, isArrived) ==
    [entry EXCEPT !.status = IF status = None THEN @ ELSE status,
                  !.isArrived = IF isArrived = Absent THEN @ ELSE isArrived[1]]

\* Mutant of UpdateResponderStatus: the loop does not break, every entry
\* of the responder is updated, and an absent status is written as None.
UpdateResponderStatus_overwrites(responders, responder_id, status, isArrived) ==
    [n \in DOMAIN responders |->
        IF responders[n].responder_id = responder_id
        THEN [responders[n] EXCEPT
                 !.status = status,
                 !.isArrived = IF isArrived = Absent THEN @ ELSE isArrived[1]]
        ELSE responders[n]]

\* Emergency.update_responder_status: the loop over the list, which stops
\* at the first entry of the responder.
UpdateResponderStatus(responders, responder_id, status, isArrived) ==
    [n \in DOMAIN responders |->
        IF n = FirstEntryOf(responders, responder_id)
        THEN UpdatedEntry(responders[n], status, isArrived)
        ELSE responders[n]]

\* What a route of the emergency collection leaves behind.
EmergencyOutcome(es, r) == [emergencies |-> es, response |-> r]

\* POST /api/emergencies: no try block, so a missing user_id key (KeyError)
\* and a failing adapter call are not caught; case_type and status are
\* stored as the body gives them.
AddEmergencyOutcome(es, user_id, case_type, status, fault) ==
    IF user_id = None \/ fault = "store_read"
    THEN EmergencyOutcome(es, Unhandled("add_emergency"))
    ELSE IF ~UserExists(user_id)
    THEN EmergencyOutcome(es, Resp("add_emergency", 400, "Invalid user_id"))
    ELSE IF case_type = None
    THEN EmergencyOutcome(es, Resp("add_emergency", 400, "case_type is required"))
    ELSE IF fault = "store_write"
    THEN EmergencyOutcome(es, Unhandled("add_emergency"))
    ELSE EmergencyOutcome(
            Append(es, EmergencyDoc(CreatedAt("timestamp", current_date), case_type,
                                    IF status = None THEN "PENDING" ELSE status,
                                    TRUE, user_id)),
            Resp("add_emergency", 201, "Added emergency"))

add_emergency(user_id, case_type, status, fault) ==
    LET out == AddEmergencyOutcome(emergencies, user_id, case_type, status, fault) IN
    /\ fault = "none" => Len(emergencies) < MaxEmergencies
    /\ emergencies' = out.emergencies
    /\ response' = out.response
    /\ UNCHANGED <<now, auth, users, config, session, current_date,
                   alerts, sirens, calls, identity_log>>

\* PUT /api/emergencies/<id> with a body that names the case type, the
\* status or both: no try block, and the values are stored as given.
UpdateEmergencyOutcome(es, id, case_type, status, fault) ==
    IF fault = "store_read"
    THEN EmergencyOutcome(es, Unhandled("update_emergency"))
    ELSE IF ~EmergencyExists(es, id)
    THEN EmergencyOutcome(es, Resp("update_emergency", 404, "Emergency not found"))
    ELSE IF fault = "store_write"
    THEN EmergencyOutcome(es, Unhandled("update_emergency"))
    ELSE EmergencyOutcome(
            [es EXCEPT ![id].case_type = IF case_type = None THEN @ ELSE case_type,
                       ![id].status = IF status = None THEN @ ELSE status],
            Resp("update_emergency", 200, "Updated emergency"))

update_emergency(id, case_type, status, fault) ==
    LET out == UpdateEmergencyOutcome(emergencies, id, case_type, status, fault) IN
    /\ case_type # None \/ status # None
    /\ emergencies' = out.emergencies
    /\ response' = out.response
    /\ UNCHANGED <<now, auth, users, config, session, current_date,
                   alerts, sirens, calls, identity_log>>

\* GET /api/emergencies/<id>: CaseType[...] and EmergencyStatus[...] raise
\* KeyError for a stored string that is no member name.
GetEmergencyResponse(es, id, fault) ==
    IF fault = "store_read"
    THEN Unhandled("get_emergency")
    ELSE IF ~EmergencyExists(es, id)
    THEN Resp("get_emergency", 404, "Emergency not found")
    ELSE IF es[id].case_type \notin CaseTypeNames
            \/ es[id].status \notin EmergencyStatusNames
    THEN Unhandled("get_emergency")
    ELSE Resp("get_emergency", 200,
              [case_type |-> CaseTypeValue(es[id].case_type),
               status |-> EmergencyStatusValue(es[id].status),
               responders |-> Len(es[id].responders)])

get_emergency(id, fault) ==
    /\ response' = GetEmergencyResponse(emergencies, id, fault)
    /\ UNCHANGED <<now, auth, users, config, session, emergencies, current_date,
                   alerts, sirens, calls, identity_log>>

\* POST /api/emergencies/<id>/add-responder: Emergency.add_responder reads
\* the document, appends the entry and writes the list back; no try block.
AddResponderOutcome(es, id, responder_id, status, isArrived, fault) ==
    IF responder_id = None
    THEN EmergencyOutcome(es, Resp("add_responder_to_emergency", 400,
                                   "responder_id is required"))
    ELSE IF fault = "store_read"
    THEN EmergencyOutcome(es, Unhandled("add_responder_to_emergency"))
    ELSE IF ~EmergencyExists(es, id)
    THEN EmergencyOutcome(es, Resp("add_responder_to_emergency", 404,
                                   "Emergency not found"))
    ELSE IF fault = "store_write"
    THEN EmergencyOutcome(es, Unhandled("add_responder_to_emergency"))
    ELSE EmergencyOutcome(
            [es EXCEPT ![id].responders =
                AddResponder(@, ResponderData(responder_id, status, isArrived))],
            Resp("add_responder_to_emergency", 200, "Responder added successfully"))

add_responder_to_emergency(id, responder_id, status, isArrived, fault) ==
    LET out == AddResponderOutcome(emergencies, id, responder_id, status,
                                   isArrived, fault) IN
    /\ (fault = "none" /\ EmergencyExists(emergencies, id))
          => Len(emergencies[id].responders) < MaxResponders
    /\ emergencies' = out.emergencies
    /\ response' = out.response
    /\ UNCHANGED <<now, auth, users, config, session, current_date,
                   alerts, sirens, calls, identity_log>>

\* POST /api/emergencies/<id>/update-responder: Emergency.update_responder_status
\* reads the document, updates the entry it finds and writes the list back,
\* also when it found none; no try block.
UpdateResponderOutcome(es, id, responder_id, status, isArrived, fault) ==
    IF responder_id = None
    THEN EmergencyOutcome(es, Resp("update_responder_in_emergency", 400,
                                   "responder_id is required"))
    ELSE IF fault = "store_read"
    THEN EmergencyOutcome(es, Unhandled("update_responder_in_emergency"))
    ELSE IF ~EmergencyExists(es, id)
    THEN EmergencyOutcome(es, Resp("update_responder_in_emergency", 404,
                                   "Emergency not found"))
    ELSE IF fault = "store_write"
    THEN EmergencyOutcome(es, Unhandled("update_responder_in_emergency"))
    ELSE EmergencyOutcome(
            [es EXCEPT ![id].responders =
                UpdateResponderStatus(@, responder_id, status, isArrived)],
            Resp("update_responder_in_emergency", 200,
                 "Responder status updated successfully"))

update_responder_in_emergency(id, responder_id, status, isArrived, fault) ==
    LET out == UpdateResponderOutcome(emergencies, id, responder_id, status,
                                      isArrived, fault) IN
    /\ emergencies' = out.emergencies
    /\ response' = out.response
    /\ UNCHANGED <<now, auth, users, config, session, current_date,
                   alerts, sirens, calls, identity_log>>

\* ------------------------------------------------------- emergency alerts
AlertIds == {"alert1", "alert2"}
ListNames == {"people_safe", "people_danger", "people_evacuating"}
RequestListNames == ListNames \cup {"people_missing"}

\* The most person entries the three lists of one alert hold together.
MaxPeople == 2

NoAlert ==
    [exists |-> FALSE, people_safe |-> <<>>, people_danger |-> <<>>,
     people_evacuating |-> <<>>]

\* EmergencyAlert.create_alert's document, as far as the lists go.
CreatedAlert ==
    [exists |-> TRUE, people_safe |-> <<>>, people_danger |-> <<>>,
     people_evacuating |-> <<>>]

NoAlerts == [a \in AlertIds |-> NoAlert]

\* A person entry as the mobile client posts it: the user id under the key
\* userId (the key alerts_page and mark_notifications_read look up), an
\* optional key id, and the time of the answer.
PersonData(userId, id, date_created) ==
    [userId |-> userId, id |-> id, date_created |-> date_created]

PersonDatas ==
    UNION {{PersonData(u, i, t) : i \in {u, None}, t \in Times} : u \in UIDs}

TotalPeople(alert) ==
    Len(alert.people_safe) + Len(alert.people_danger) + Len(alert.people_evacuating)

\* EmergencyAlert.add_person_to_list: current_list.append(person_data).
AddPerson(current_list, person_data) == Append(current_list, person_data)

\* EmergencyAlert.remove_person_from_list:
\* [p for p in current_list if p.get('id') != person_identifier].
RemovePerson(current_list, person_identifier) ==
    SelectSeq(current_list, LAMBDA p : p.id # person_identifier)

\* What a route of the alert collection leaves behind.
AlertOutcome(als, r) == [alerts |-> als, response |-> r]

\* POST /api/emergency-alerts/<id>/add-person; list_name is None for a body
\* that lacks one of its two keys.  The route catches ValueError only, so a
\* failing adapter call is not caught.
AddPersonOutcome(als, id, list_name, person_data, fault) ==
    IF list_name = None
    THEN AlertOutcome(als, Resp("add_person_to_alert", 400,
                                "list_name and person_data are required"))
    ELSE IF fault = "store_read"
    THEN AlertOutcome(als, Unhandled("add_person_to_alert"))
    ELSE IF ~als[id].exists
    THEN AlertOutcome(als, Resp("add_person_to_alert", 404, "Alert not found"))
    ELSE IF list_name \notin ListNames
    THEN AlertOutcome(als, Resp("add_person_to_alert", 400, "Invalid list_name"))
    ELSE IF fault = "store_write"
    THEN AlertOutcome(als, Unhandled("add_person_to_alert"))
    ELSE AlertOutcome(
            [als EXCEPT ![id][list_name] = AddPerson(@, person_data)],
            Resp("add_person_to_alert", 200, "Person added successfully"))

add_person_to_alert(id, list_name, person_data, fault) ==
    LET out == AddPersonOutcome(alerts, id, list_name, person_data, fault) IN
    /\ fault = "none" => TotalPeople(alerts[id]) < MaxPeople
    /\ alerts' = out.alerts
    /\ response' = out.response
    /\ UNCHANGED <<now, auth, users, config, session, emergencies, current_date,
                   sirens, calls, identity_log>>

\* POST /api/emergency-alerts/<id>/remove-person.
RemovePersonOutcome(als, id, list_name, person_id, fault) ==
    IF list_name = None \/ person_id = None
    THEN AlertOutcome(als, Resp("remove_person_from_alert", 400,
                                "list_name and person_id are required"))
    ELSE IF fault = "store_read"
    THEN AlertOutcome(als, Unhandled("remove_person_from_alert"))
    ELSE IF ~als[id].exists
    THEN AlertOutcome(als, Resp("remove_person_from_alert", 404, "Alert not found"))
    ELSE IF list_name \notin ListNames
    THEN AlertOutcome(als, Resp("remove_person_from_alert", 400, "Invalid list_name"))
    ELSE IF fault = "store_write"
    THEN AlertOutcome(als, Unhandled("remove_person_from_alert"))
    ELSE AlertOutcome(
            [als EXCEPT ![id][list_name] = RemovePerson(@, person_id)],
            Resp("remove_person_from_alert", 200, "Person removed successfully"))

remove_person_from_alert(id, list_name, person_id, fault) ==
    LET out == RemovePersonOutcome(alerts, id, list_name, person_id, fault) IN
    /\ alerts' = out.alerts
    /\ response' = out.response
    /\ UNCHANGED <<now, auth, users, config, session, emergencies, current_date,
                   sirens, calls, identity_log>>

\* ------------------------------------------------------------------ sirens
SirenTypes == {"typhoon", "flood", "earthquake"}
RequestSirenTypes == SirenTypes \cup {"tsunami"}

\* A flag of the realtime database: Absent, or Given(a boolean).
SirenValues == {Absent, Given(TRUE), Given(FALSE)}
NoSirens == [t \in SirenTypes |-> Absent]

\* get_realtime_db() returns None ("no_database"), or a call on the
\* reference raises.
SirenFaults == {"none", "no_database", "realtime_read", "realtime_write"}

\* db.child(path).get(), None read as False.
CurrentStatus(value) == IF value = Absent THEN FALSE ELSE value[1]

\* What a siren route leaves behind.
SirenOutcome(srs, r) == [sirens |-> srs, response |-> r]

\* Mutant of ToggleSirenOutcome: the flag is switched on, never off.
ToggleSirenOutcome_activates(srs, siren_type, fault) ==
    IF siren_type \notin SirenTypes
    THEN SirenOutcome(srs, Resp("toggle_siren", 400, "Invalid siren type"))
    ELSE IF fault = "no_database"
    THEN SirenOutcome(srs, Resp("toggle_siren", 500, "Realtime Database not configured"))
    ELSE IF fault \in {"realtime_read", "realtime_write"}
    THEN SirenOutcome(srs, Resp("toggle_siren", 500, "str(e)"))
    ELSE SirenOutcome(
            [srs EXCEPT ![siren_type] = Given(TRUE)],
            Resp("toggle_siren", 200,
                 [siren_type |-> siren_type,
                  previous_status |-> CurrentStatus(srs[siren_type]),
                  new_status |-> TRUE]))

\* POST /api/sirens/<siren_type>/toggle.
ToggleSirenOutcome(srs, siren_type, fault) ==
    IF siren_type \notin SirenTypes
    THEN SirenOutcome(srs, Resp("toggle_siren", 400, "Invalid siren type"))
    ELSE IF fault = "no_database"
    THEN SirenOutcome(srs, Resp("toggle_siren", 500, "Realtime Database not configured"))
    ELSE IF fault \in {"realtime_read", "realtime_write"}
    THEN SirenOutcome(srs, Resp("toggle_siren", 500, "str(e)"))
    ELSE SirenOutcome(
            [srs EXCEPT ![siren_type] = Given(~CurrentStatus(@))],
            Resp("toggle_siren", 200,
                 [siren_type |-> siren_type,
                  previous_status |-> CurrentStatus(srs[siren_type]),
                  new_status |-> ~CurrentStatus(srs[siren_type])]))

toggle_siren(siren_type, fault) ==
    LET out == ToggleSirenOutcome(sirens, siren_type, fault) IN
    /\ sirens' = out.sirens
    /\ response' = out.response
    /\ UNCHANGED <<now, auth, users, config, session, emergencies, current_date,
                   alerts, calls, identity_log>>

\* POST /api/sirens/<siren_type>/activate and .../deactivate: the flag is
\* set to the given status without being read.
SetSirenOutcome(op, srs, siren_type, status, fault) ==
    IF siren_type \notin SirenTypes
    THEN SirenOutcome(srs, Resp(op, 400, "Invalid siren type"))
    ELSE IF fault = "no_database"
    THEN SirenOutcome(srs, Resp(op, 500, "Realtime Database not configured"))
    ELSE IF fault = "realtime_write"
    THEN SirenOutcome(srs, Resp(op, 500, "str(e)"))
    ELSE SirenOutcome([srs EXCEPT ![siren_type] = Given(status)],
                      Resp(op, 200, [siren_type |-> siren_type, status |-> status]))

activate_siren(siren_type, fault) ==
    LET out == SetSirenOutcome("activate_siren", sirens, siren_type, TRUE, fault) IN
    /\ sirens' = out.sirens
    /\ response' = out.response
    /\ UNCHANGED <<now, auth, users, config, session, emergencies, current_date,
                   alerts, calls, identity_log>>

deactivate_siren(siren_type, fault) ==
    LET out == SetSirenOutcome("deactivate_siren", sirens, siren_type, FALSE, fault) IN
    /\ sirens' = out.sirens
    /\ response' = out.response
    /\ UNCHANGED <<now, auth, users, config, session, emergencies, current_date,
                   alerts, calls, identity_log>>

\* GET /api/sirens/status.
SirensStatusResponse(srs, fault) ==
    IF fault = "no_database"
    THEN Resp("get_all_sirens_status", 500, "Realtime Database not configured")
    ELSE IF fault = "realtime_read"
    THEN Resp("get_all_sirens_status", 500, "str(e)")
    ELSE Resp("get_all_sirens_status", 200,
              [t \in SirenTypes |-> CurrentStatus(srs[t])])

get_all_sirens_status(fault) ==
    /\ response' = SirensStatusResponse(sirens, fault)
    /\ UNCHANGED <<now, auth, users, config, session, emergencies, current_date,
                   alerts, sirens, calls, identity_log>>

\* ----------------------------------------------------------- user creation
\* What User.create_user leaves behind: the identity provider, the users
\* collection, the call whose exception it raised (None when it returned),
\* and the calls it made on the identity provider.
CreateUserResult(au, us, raised, log) ==
    [auth |-> au, users |-> us, raised |-> raised, identity_log |-> log]

\* Mutant of CreateUserOutcome: the account is left when the write fails.
CreateUserOutcome_noRollback(au, us, u, role, fault, delete_fails) ==
    IF fault = "identity" \/ u \in au
    THEN CreateUserResult(au, us, "auth.create_user", <<"create_user">>)
    ELSE IF fault = "store_write"
    THEN CreateUserResult(au \cup {u}, us, "cls.create", <<"create_user">>)
    ELSE CreateUserResult(au \cup {u}, [us EXCEPT ![u] = CreatedDoc(u, role)],
                          None, <<"create_user">>)

\* User.create_user: auth.create_user (which raises for an e-mail that has
\* an account), then the document under the uid; when the write raises, one
\* auth.delete_user in a try whose failure is passed over, then raise e.
CreateUserOutcome(au, us, u, role, fault, delete_fails) ==
    IF fault = "identity" \/ u \in au
    THEN CreateUserResult(au, us, "auth.create_user", <<"create_user">>)
    ELSE IF fault = "store_write"
    THEN CreateUserResult(IF delete_fails THEN au \cup {u} ELSE au, us,
                          "cls.create", <<"create_user", "delete_user">>)
    ELSE CreateUserResult(au \cup {u}, [us EXCEPT ![u] = CreatedDoc(u, role)],
                          None, <<"create_user">>)

\* POST /api/users: no try block, so what create_user raises is not caught.
add_api_user(u, role, fault, delete_fails) ==
    LET out == CreateUserOutcome(auth, users, u, role, fault, delete_fails) IN
    /\ auth' = out.auth
    /\ users' = out.users
    /\ identity_log' = out.identity_log
    /\ response' = IF out.raised # None
                   THEN Unhandled("add_api_user")
                   ELSE Resp("add_api_user", 201, "Added")
    /\ UNCHANGED <<now, config, session, emergencies, current_date,
                   alerts, sirens, calls>>

\* DELETE /api/users/<id>: User.delete_user passes over a failure of
\* auth.delete_user and deletes the document.
delete_user(u, fault) ==
    /\ IF fault = "store_read"
       THEN /\ response' = Unhandled("delete_user")
            /\ UNCHANGED <<auth, users>>
       ELSE IF ~users[u].exists
       THEN /\ response' = Resp("delete_user", 404, "User not found")
            /\ UNCHANGED <<auth, users>>
       ELSE IF fault = "store_write"
       THEN /\ response' = Resp("delete_user", 500, "Failed to delete user")
            /\ auth' = auth \ {u}
            /\ UNCHANGED users
       ELSE /\ response' = Resp("delete_user", 200, "Deleted")
            /\ auth' = IF fault = "identity" THEN auth ELSE auth \ {u}
            /\ users' = [users EXCEPT ![u] = NoDoc]
    /\ UNCHANGED <<now, config, session, emergencies, current_date,
                   alerts, sirens, calls, identity_log>>

\* ------------------------------------------- responder calls in two workers
\* Emergency.add_responder and Emergency.update_responder_status read the
\* document, change the list in memory and write the list back, with no
\* transaction: the requests of two workers interleave between the read and
\* the write.
Workers == {"w1", "w2"}

\* A call: where it stands, what it was asked, the list as it read it
\* (seen), the list it writes (responders), and whether its write is the
\* latest write of the list.
Call(pc, op, emergency_id, responder_id, seen, responders, latest) ==
    [pc |-> pc, op |-> op, emergency_id |-> emergency_id,
     responder_id |-> responder_id, seen |-> seen, responders |-> responders,
     latest |-> latest]

NoCall == Call("idle", None, 0, None, <<>>, <<>>, FALSE)
NoCalls == [w \in Workers |-> NoCall]

\* The list a call holds in memory after its loop or its append: the
\* model's update calls pass isArrived=True and no status.
ChangedList(op, responders, responder_id) ==
    IF op = "add_responder"
    THEN AddResponder(responders, ResponderData(responder_id, None, Absent))
    ELSE UpdateResponderStatus(responders, responder_id, None, Given(TRUE))

\* cls.get_by_id(emergency_id) and the change in memory.
call_reads(w, op, emergency_id, responder_id) ==
    /\ calls[w].pc # "read"
    /\ EmergencyExists(emergencies, emergency_id)
    /\ op = "add_responder"
          => Len(emergencies[emergency_id].responders) < MaxResponders
    /\ calls' = [calls EXCEPT ![w] =
                    Call("read", op, emergency_id, responder_id,
                         emergencies[emergency_id].responders,
                         ChangedList(op, emergencies[emergency_id].responders,
                                     responder_id),
                         FALSE)]
    /\ UNCHANGED <<now, auth, users, config, session, response, emergencies,
                   current_date, alerts, sirens, identity_log>>

\* Mutant of WrittenList: the change is applied to the list as it is stored.
WrittenList_transaction(call, stored) ==
    ChangedList(call.op, stored, call.responder_id)

\* cls.update(emergency_id, {'responders': responders}): the list the call
\* holds replaces the stored list.
WrittenList(call, stored) == call.responders

call_writes(w) ==
    /\ calls[w].pc = "read"
    /\ emergencies' =
          [emergencies EXCEPT ![calls[w].emergency_id].responders =
              WrittenList(calls[w], @)]
    /\ calls' = [v \in Workers |->
                    IF v = w
                    THEN [calls[v] EXCEPT !.pc = "written", !.latest = TRUE]
                    ELSE [calls[v] EXCEPT !.latest = FALSE]]
    /\ response' = Resp(calls[w].op, 200, "success")
    /\ UNCHANGED <<now, auth, users, config, session, current_date, alerts, sirens,
                   identity_log>>

\* The clock moves to the next 30-second step.
Tick ==
    /\ now < MaxTime
    /\ now' = now + 1
    /\ UNCHANGED <<auth, users, config, session, response, emergencies, current_date,
               alerts, sirens, calls, identity_log>>

Init ==
    /\ now = 0
    /\ auth = UIDs
    /\ users = [u \in UIDs |-> CreatedDoc(u, IF u = "uid1" THEN "admin" ELSE "citizen")]
    /\ config = DefaultConfig
    /\ session = EmptySession
    /\ response = Resp(None, 0, None)
    /\ emergencies = <<>>
    /\ current_date = Date(2025, 1, 15)
    /\ alerts = NoAlerts
    /\ sirens = NoSirens
    /\ calls = NoCalls
    /\ identity_log = <<>>

\* The adapter calls each handler makes, hence the faults it can meet.
VerifyFaults == {"none", "store_write"}
DisableFaults == {"none", "store_read", "store_write"}
ConfigFaults == {"none", "store_write"}
SetupAdminFaults == {"none", "identity", "store_write"}
UpdateUserFaults == {"none", "store_read", "store_write"}

\* The account the account-management requests of the model address; uid2
\* stays the citizen account it was created as.
ManagedUIDs == {"uid1"}

Next ==
    \/ Tick
    \/ \E i \in Identifiers, p \in Passwords, c \in CodeInputs, f \in Faults :
          admin_login(i, p, c, f)
    \/ \E s \in Secrets : setup_2fa(s)
    \/ \E c \in CodeInputs, f \in VerifyFaults : verify_2fa(c, f)
    \/ \E c \in CodeInputs, f \in DisableFaults : disable_2fa(c, f)
    \/ admin_logout
    \/ \E u \in ManagedUIDs, f \in SetupAdminFaults : setup_admin(u, f)
    \/ \E u \in ManagedUIDs, r \in Roles, f \in UpdateUserFaults : update_user(u, r, f)

Spec == Init /\ [][Next]_vars

\* The same system with the configuration route.
NextConfig ==
    \/ Next
    \/ \E n \in EmergencyNumbers, f \in ConfigFaults : update_configuration(n, f)

SpecConfig == Init /\ [][NextConfig]_vars

\* The routes that read or write the session: the two-factor flow, logout,
\* configuration, profile and the notification bookkeeping, all served within
\* one time step.
NextSession ==
    \/ \E i \in Identifiers, p \in Passwords, c \in CodeInputs, f \in Faults :
          admin_login(i, p, c, f)
    \/ \E s \in Secrets : setup_2fa(s)
    \/ \E c \in CodeInputs, f \in VerifyFaults : verify_2fa(c, f)
    \/ \E c \in CodeInputs, f \in DisableFaults : disable_2fa(c, f)
    \/ admin_logout
    \/ \E n \in EmergencyNumbers, f \in ConfigFaults : update_configuration(n, f)
    \/ \E file \in ProfileFiles, f \in UploadFaults : upload_profile_picture(file, f)
    \/ \E current \in SUBSET NotifIds, f \in {"none", "store_read"} :
          mark_notifications_read(current, f)
    \/ \E e \in EmergencyIds \cup {NoEmergency} : mark_emergency_viewed(e)

SpecSession == Init /\ [][NextSession]_vars

\* ------------------------------------------------------ the dashboard alone
\* The sequences over S of length at most n.
SeqsUpTo(S, n) == UNION {[1..k -> S] : k \in 0..n}

\* The created_at values with the given dates.
CreatedAts(dates) ==
    {CreatedAt(k, NoDate) : k \in MalformedKinds}
      \cup {CreatedAt(k, d) : k \in DatedKinds, d \in dates}

\* The days the dashboard is served on, and the days the emergencies were
\* created on: 31, 30 and 14 days before the first, none of them within 30
\* days of the second; one of them in the year of the clock.
IndexDates == {Date(2025, 1, 15), Date(2025, 3, 1)}
IndexCreatedDates == {Date(2024, 12, 15), Date(2024, 12, 16), Date(2025, 1, 1)}

\* Emergencies of any case type and status with a timestamp, not active.
IndexEmergencyDocs ==
    {EmergencyDoc(CreatedAt("timestamp", d), t, s, FALSE, "uid1") :
        d \in IndexCreatedDates, t \in CaseTypeNames, s \in StatusNames}

\* Emergencies of one case type and status with any created_at, active or not.
IndexOddDocs ==
    {EmergencyDoc(c, "FIRE", "PENDING", a, "uid1") :
        c \in CreatedAts(IndexCreatedDates), a \in BOOLEAN}

\* The accounts and the session as they are created; a collection of
\* timestamped emergencies, or at most two emergencies with any created_at.
InitIndex ==
    /\ now = 0
    /\ auth = UIDs
    /\ users = [u \in UIDs |-> CreatedDoc(u, IF u = "uid1" THEN "admin" ELSE "citizen")]
    /\ config = DefaultConfig
    /\ session = EmptySession
    /\ response = Resp(None, 0, None)
    /\ current_date \in IndexDates
    /\ alerts = NoAlerts
    /\ sirens = NoSirens
    /\ calls = NoCalls
    /\ identity_log = <<>>
    /\ \/ emergencies \in SeqsUpTo(IndexEmergencyDocs, MaxEmergencies)
       \/ emergencies \in SeqsUpTo(IndexOddDocs, 2)

NextIndex == index

SpecIndex == InitIndex /\ [][NextIndex]_vars

\* ------------------------------------------------- dashboard and reports
\* The days the pages are served on: the last days of January, all of
\* February and the first days of March.
FirstDay == Date(2025, 1, 25)
LastDay == Date(2025, 3, 5)
ViewDates == {FromOrdinal(n) : n \in ToOrdinal(FirstDay)..ToOrdinal(LastDay)}

\* The days the emergencies were created on.
ViewCreatedDates == {Date(2024, 12, 31), Date(2025, 1, 1), Date(2025, 2, 10)}

\* Emergencies that are not active, so that the dashboard sorts nothing.
ViewEmergencyDocs ==
    {EmergencyDoc(c, "FIRE", "PENDING", FALSE, u) :
        c \in CreatedAts(ViewCreatedDates), u \in UIDs}

\* The accounts with the given barangays.
UsersOf(b1, b2) ==
    [u \in UIDs |->
        [CreatedDoc(u, IF u = "uid1" THEN "admin" ELSE "citizen")
            EXCEPT !.barangay = IF u = "uid1" THEN b1 ELSE b2]]

\* Either any day with two users of two barangays, or one day with users of
\* any barangays; at most one emergency.
InitViews ==
    /\ now = 0
    /\ auth = UIDs
    /\ config = DefaultConfig
    /\ session = EmptySession
    /\ response = Resp(None, 0, None)
    /\ alerts = NoAlerts
    /\ sirens = NoSirens
    /\ calls = NoCalls
    /\ identity_log = <<>>
    /\ \/ /\ users = UsersOf("Rizal", "ADELA")
          /\ current_date \in ViewDates
          /\ emergencies \in SeqsUpTo(ViewEmergencyDocs, 1)
       \/ /\ \E b1 \in BarangayValues, b2 \in BarangayValues : users = UsersOf(b1, b2)
          /\ current_date = LastDay
          /\ emergencies \in SeqsUpTo(ViewEmergencyDocs, 1)

NextViews ==
    \/ index
    \/ \E f \in BarangayFilters : reports_page(f)

SpecViews == InitViews /\ [][NextViews]_vars

\* --------------------------------------------------- the emergency routes
\* The ids the requests address: those of the collection, and one that has
\* no document.
RequestEmergencyIds == 1..(MaxEmergencies + 1)
EmergencyFaults == {"none", "store_read", "store_write"}

InitEmergencies ==
    /\ now = 0
    /\ auth = UIDs
    /\ users = [u \in UIDs |-> CreatedDoc(u, IF u = "uid1" THEN "admin" ELSE "citizen")]
    /\ config = DefaultConfig
    /\ session = EmptySession
    /\ response = Resp(None, 0, None)
    /\ emergencies = <<>>
    /\ current_date = Date(2025, 1, 15)
    /\ alerts = NoAlerts
    /\ sirens = NoSirens
    /\ calls = NoCalls
    /\ identity_log = <<>>

NextEmergencies ==
    \/ \E u \in RequestUserIds \cup {None}, t \in RequestCaseTypes \cup {None},
          s \in RequestStatuses \cup {None}, f \in EmergencyFaults :
          add_emergency(u, t, s, f)
    \/ \E id \in RequestEmergencyIds, t \in RequestCaseTypes \cup {None},
          s \in RequestStatuses \cup {None}, f \in EmergencyFaults :
          update_emergency(id, t, s, f)
    \/ \E id \in RequestEmergencyIds, f \in {"none", "store_read"} :
          get_emergency(id, f)

SpecEmergencies == InitEmergencies /\ [][NextEmergencies]_vars

\* ------------------------------------------------------- the alert routes
\* One alert as create_alert wrote it, and an id that has no document.
InitAlerts ==
    /\ now = 0
    /\ auth = UIDs
    /\ users = [u \in UIDs |-> CreatedDoc(u, IF u = "uid1" THEN "admin" ELSE "citizen")]
    /\ config = DefaultConfig
    /\ session = EmptySession
    /\ response = Resp(None, 0, None)
    /\ emergencies = <<>>
    /\ current_date = Date(2025, 1, 15)
    /\ alerts = [a \in AlertIds |-> IF a = "alert1" THEN CreatedAlert ELSE NoAlert]
    /\ sirens = NoSirens
    /\ calls = NoCalls
    /\ identity_log = <<>>

NextAlerts ==
    \/ \E id \in AlertIds, l \in RequestListNames \cup {None}, p \in PersonDatas,
          f \in EmergencyFaults :
          add_person_to_alert(id, l, p, f)
    \/ \E id \in AlertIds, l \in RequestListNames \cup {None},
          p \in UIDs \cup {None}, f \in EmergencyFaults :
          remove_person_from_alert(id, l, p, f)

SpecAlerts == InitAlerts /\ [][NextAlerts]_vars

\* ------------------------------------------------------- the siren routes
NextSirens ==
    \/ \E t \in RequestSirenTypes, f \in SirenFaults : toggle_siren(t, f)
    \/ \E t \in RequestSirenTypes, f \in SirenFaults \ {"realtime_read"} :
          activate_siren(t, f)
    \/ \E t \in RequestSirenTypes, f \in SirenFaults \ {"realtime_read"} :
          deactivate_siren(t, f)
    \/ \E f \in SirenFaults \ {"realtime_write"} : get_all_sirens_status(f)

SpecSirens == Init /\ [][NextSirens]_vars

\* ----------------------------------------------------- the account routes
\* No account yet: the accounts are created and deleted through the API.
InitAccounts ==
    /\ now = 0
    /\ auth = {}
    /\ users = [u \in UIDs |-> NoDoc]
    /\ config = DefaultConfig
    /\ session = EmptySession
    /\ response = Resp(None, 0, None)
    /\ emergencies = <<>>
    /\ current_date = Date(2025, 1, 15)
    /\ alerts = NoAlerts
    /\ sirens = NoSirens
    /\ calls = NoCalls
    /\ identity_log = <<>>

CreateUserFaults == {"none", "identity", "store_write"}

NextAccounts ==
    \/ \E u \in UIDs, r \in Roles, f \in CreateUserFaults, d \in BOOLEAN :
          add_api_user(u, r, f, d)
    \/ \E u \in UIDs, f \in Faults : delete_user(u, f)
    \/ \E u \in UIDs, r \in Roles, f \in UpdateUserFaults : update_user(u, r, f)

SpecAccounts == InitAccounts /\ [][NextAccounts]_vars

\* ---------------------------------------------------- the responder routes
\* One emergency as add_emergency wrote it.
InitDispatch ==
    /\ now = 0
    /\ auth = UIDs
    /\ users = [u \in UIDs |-> CreatedDoc(u, IF u = "uid1" THEN "admin" ELSE "citizen")]
    /\ config = DefaultConfig
    /\ session = EmptySession
    /\ response = Resp(None, 0, None)
    /\ emergencies = <<EmergencyDoc(CreatedAt("timestamp", Date(2025, 1, 15)),
                                    "FIRE", "PENDING", TRUE, "uid1")>>
    /\ current_date = Date(2025, 1, 15)
    /\ alerts = NoAlerts
    /\ sirens = NoSirens
    /\ calls = NoCalls
    /\ identity_log = <<>>

\* The ids the responder requests address: the emergency, and an id that
\* has no document.
DispatchedIds == 1..2

NextResponders ==
    \/ \E id \in DispatchedIds, r \in UIDs \cup {None},
          s \in ResponderStatuses \cup {None}, a \in {Absent, Given(TRUE)},
          f \in EmergencyFaults :
          add_responder_to_emergency(id, r, s, a, f)
    \/ \E id \in DispatchedIds, r \in UIDs \cup {None},
          s \in ResponderStatuses \cup {None},
          a \in {Absent, Given(TRUE), Given(FALSE)}, f \in EmergencyFaults :
          update_responder_in_emergency(id, r, s, a, f)

SpecResponders == InitDispatch /\ [][NextResponders]_vars

\* ------------------------------------------------- two workers, one list
\* The two workers serve responder requests for the one emergency.
CallOps == {"add_responder", "update_responder_status"}

NextWorkers ==
    \/ \E w \in Workers, op \in CallOps, r \in UIDs : call_reads(w, op, 1, r)
    \/ \E w \in Workers : call_writes(w)

SpecWorkers == InitDispatch /\ [][NextWorkers]_vars


\* ====================================================================
\* Properties of the two-factor login flow
\* ====================================================================

\* The account the identity provider holds for an e-mail address.
HoldsAccount(u, email) == u \in auth /\ EmailOf(u) = email

\* An existing account with the admin role / with another role.
AdminAccount(u) == u \in auth /\ users[u].exists /\ users[u].role = "admin"
OtherAccount(u) == u \in auth /\ users[u].exists /\ users[u].role # "admin"

\* The code of the current time step for a secret.
CurrentCode(secret, code) == code \in Codes /\ code = Totp(secret, now)

\* The lookups of admin_login (the identity provider and the read of the
\* user document) answer; a later write may still fail.
LookupAnswers(fault) == fault \in {"none", "store_write"}

\* C1: a login request whose password is not the password of the admin
\* account it names is never granted a session: a session that is not
\* logged in is still not logged in after the request.
C1_PasswordVerifiedBeforeSession ==
    [][\A u \in UIDs, p \in Passwords, c \in CodeInputs :
          (/\ AdminAccount(u)
           /\ p # PasswordOf(u)
           /\ ~session.logged_in
           /\ admin_login(EmailOf(u), p, c, "none"))
          => ~session'.logged_in]_vars

\* The responses of admin_login.
InvalidCredentials == Resp("admin_login", 401, "Invalid credentials")
AccessDenied == Resp("admin_login", 403, "Access denied. Admin role required.")
SetupRequired == Resp("admin_login", 200, "2FA setup required")
CodeRequired == Resp("admin_login", 200, "Two-factor authentication is required")
InvalidOTP == Resp("admin_login", 400, "Invalid 2FA code")
LoginSuccessful == Resp("admin_login", 200, "Login successful")
LoginFailed == Resp("admin_login", 500, "An error occurred during login")

\* C2: for an admin account with a stored secret, a login without a code
\* stores the pending account id and e-mail in the session, answers that a
\* code is required and leaves logged_in, user_id and the user documents
\* as they were.
C2_CodeRequiredGrantsNoSession ==
    \A u \in UIDs, p \in Passwords, f \in Faults :
        (AdminAccount(u) /\ users[u].two_factor_secret # NoSecret /\ LookupAnswers(f))
        => LET out == AdminLoginOutcome(EmailOf(u), p, NoCode, f) IN
           /\ out.response = CodeRequired
           /\ out.session.pending_login_uid = u
           /\ out.session.pending_login_email = EmailOf(u)
           /\ out.session.logged_in = session.logged_in
           /\ out.session.user_id = session.user_id
           /\ out.session.requires_2fa_setup = session.requires_2fa_setup
           /\ out.users = users

\* C2 witness: a code was asked for, the pending account is in the session
\* and nobody is logged in.
C2_Witness ==
    /\ response = CodeRequired
    /\ session.pending_login_uid # None
    /\ users[session.pending_login_uid].two_factor_secret # NoSecret
    /\ ~session.logged_in
    /\ session.user_id = None

\* C3: for an admin account with a stored secret, a login with the code of
\* the current time step logs the account in (logged_in, user_id = the
\* account), removes pending_login_uid and pending_login_email, and records
\* the last-login time in the user document.
C3_ValidCodeAuthenticates ==
    \A u \in UIDs, p \in Passwords, c \in Codes :
        (AdminAccount(u) /\ users[u].two_factor_secret # NoSecret
           /\ CurrentCode(users[u].two_factor_secret, c))
        => LET out == AdminLoginOutcome(EmailOf(u), p, c, "none") IN
           /\ out.response = LoginSuccessful
           /\ out.session.logged_in
           /\ out.session.user_id = u
           /\ out.session.pending_login_uid = None
           /\ out.session.pending_login_email = None
           /\ out.users = [users EXCEPT ![u].lastLogin = now]

\* C3 witness: a login that went through both steps: the last-login time of
\* the logged-in account is the current step and nothing is pending.
C3_Witness ==
    /\ response = LoginSuccessful
    /\ session.logged_in
    /\ session.user_id # None
    /\ users[session.user_id].two_factor_secret # NoSecret
    /\ users[session.user_id].lastLogin = now
    /\ now > 0
    /\ session.pending_login_uid = None

\* C4: for an admin account with a stored secret, a login with a code that
\* is not the code of the current time step is refused as an invalid code:
\* the session (logged_in, the pending login) and every user document
\* (two_factor_secret, two_factor_enabled) are as they were.
C4_InvalidCodeRejected ==
    \A u \in UIDs, p \in Passwords, c \in Codes, f \in Faults :
        (AdminAccount(u) /\ users[u].two_factor_secret # NoSecret
           /\ ~CurrentCode(users[u].two_factor_secret, c) /\ LookupAnswers(f))
        => LET out == AdminLoginOutcome(EmailOf(u), p, c, f) IN
           /\ out.response = InvalidOTP
           /\ out.session = session
           /\ out.users = users

\* C4 witness: a code was refused while the login was pending, and it still is.
C4_Witness ==
    /\ response = InvalidOTP
    /\ session.pending_login_uid # None
    /\ ~session.logged_in
    /\ users[session.pending_login_uid].two_factor_secret # NoSecret
    /\ users[session.pending_login_uid].two_factor_enabled

ProvisionalSessionPendingSetup ==
    /\ session.logged_in
    /\ session.requires_2fa_setup
    /\ session.user_id # None
    /\ users[session.user_id].two_factor_secret = NoSecret

\* C6: a session in ProvisionalSessionPendingSetup is refused by
\* update_configuration: the route never answers it with success.
C6_ProvisionalSessionCannotConfigure ==
    (ProvisionalSessionPendingSetup /\ response.op = "update_configuration")
    => response.status # 200

\* C7: a login that names an existing account whose role is not admin is
\* refused with AccessDenied and the session (logged_in,
\* requires_2fa_setup, pending_login_uid) and the user documents are as
\* they were, with or without a stored secret, with or without a code.
C7_NonAdminAccessDenied ==
    \A u \in UIDs, p \in Passwords, c \in CodeInputs, f \in Faults :
        (OtherAccount(u) /\ LookupAnswers(f))
        => LET out == AdminLoginOutcome(EmailOf(u), p, c, f) IN
           /\ out.response = AccessDenied
           /\ out.session = session
           /\ out.users = users

\* C7 witness: access was denied to an account that has a stored secret
\* and is no longer an admin.
C7_Witness ==
    /\ response = AccessDenied
    /\ \E u \in UIDs : OtherAccount(u) /\ users[u].two_factor_secret # NoSecret
    /\ ~session.logged_in
    /\ session.pending_login_uid = None

\* The identifier names no account: a username no user document carries
\* in its email field, or an e-mail address the identity provider does not
\* know.
NoSuchAccount(identifier) ==
    IF HasAt(identifier)
    THEN ~\E u \in UIDs : HoldsAccount(u, identifier)
    ELSE identifier # None /\ UsersWhereEmail(identifier) = {}

\* The resolution of the identifier itself fails: the identity adapter
\* raises (an adapter fault, or an absent identifier it rejects), or the
\* username query raises.
LookupFails(identifier, fault) ==
    IF identifier # None /\ ~HasAt(identifier)
    THEN fault = "store_read"
    ELSE fault = "identity" \/ identifier = None

\* C8 as stated: whenever the identifier names no account or the lookup
\* fails, the login is answered with InvalidCredentials.
C8_LookupFailureIsInvalidCredentials ==
    [][\A i \in Identifiers, p \in Passwords, c \in CodeInputs, f \in Faults :
          ((NoSuchAccount(i) \/ LookupFails(i, f)) /\ admin_login(i, p, c, f))
          => response' = InvalidCredentials]_vars

\* C8 amended: whenever the identifier names no account or the lookup
\* fails, the session and the user documents are as they were; the answer
\* is InvalidCredentials (401) when the lookup answers that there is no
\* such account, and the generic login error (500) when the lookup fails.
C8_LookupFailureGrantsNothing ==
    \A i \in Identifiers, p \in Passwords, c \in CodeInputs, f \in Faults :
        (NoSuchAccount(i) \/ LookupFails(i, f))
        => LET out == AdminLoginOutcome(i, p, c, f) IN
           /\ out.session = session
           /\ out.users = users
           /\ out.response = IF LookupFails(i, f) THEN LoginFailed ELSE InvalidCredentials

\* C8 witness: a login failed with the generic error and left a pending
\* login of an earlier request in place.
C8_Witness ==
    /\ response = LoginFailed
    /\ ~session.logged_in
    /\ session.user_id = None
    /\ session.pending_login_uid # None

\* C9: setup_2fa and a verify_2fa that does not succeed leave every user
\* document as it was; a verify_2fa with the current code of the session's
\* candidate secret writes that candidate as two_factor_secret and TRUE as
\* two_factor_enabled into the document of the session's account, and
\* nothing else.
C9_CandidateSecretPersistedOnlyOnConfirm ==
    /\ \A s \in Secrets : Setup2faOutcome(s).users = users
    /\ \A c \in CodeInputs, f \in VerifyFaults :
          LET out == Verify2faOutcome(c, f)
              candidate == session.temp_2fa_secret
          IN  IF /\ ~NotAuthenticated(session)
                 /\ candidate # NoSecret
                 /\ CurrentCode(candidate, c)
                 /\ f = "none"
                 /\ users[session.user_id].exists
              THEN /\ out.response.status = 200
                   /\ out.users =
                        [users EXCEPT ![session.user_id].two_factor_secret = candidate,
                                      ![session.user_id].two_factor_enabled = TRUE]
              ELSE /\ out.response.status # 200
                   /\ out.users = users

\* C9 witness: an enrollment was confirmed; the candidate is now the stored
\* secret of the session's account and has left the session.
C9_Witness ==
    /\ response = Resp("verify_2fa", 200, "2FA enabled successfully")
    /\ users[session.user_id].two_factor_secret # NoSecret
    /\ users[session.user_id].two_factor_enabled
    /\ session.temp_2fa_secret = NoSecret

\* verify_2fa refused the code.
VerifyRefused == Resp("verify_2fa", 400, "Invalid verification code")

\* C10 as stated: after verify_2fa refused a code, the session holds no
\* candidate secret.
C10_RefusedCodeDiscardsCandidate ==
    response = VerifyRefused => session.temp_2fa_secret = NoSecret

\* C10 amended: a verify_2fa with a code that is not the current code of
\* the candidate secret is refused and leaves the session, the candidate
\* secret included, and the user documents as they were; right after the
\* refusal a further verify_2fa with the candidate's current code succeeds
\* without a new setup_2fa.
C10_RefusedCodeKeepsCandidate ==
    /\ \A c \in CodeInputs, f \in VerifyFaults :
          (/\ ~NotAuthenticated(session)
           /\ session.temp_2fa_secret # NoSecret
           /\ ~CurrentCode(session.temp_2fa_secret, c))
          => LET out == Verify2faOutcome(c, f) IN
             /\ out.response = VerifyRefused
             /\ out.session = session
             /\ out.users = users
    /\ (response = VerifyRefused /\ ~NotAuthenticated(session)
           /\ users[session.user_id].exists)
       => /\ session.temp_2fa_secret # NoSecret
          /\ Verify2faOutcome(Totp(session.temp_2fa_secret, now), "none").response
                = Resp("verify_2fa", 200, "2FA enabled successfully")

\* C10 witness: a code was refused and the candidate is still in the session.
C10_Witness ==
    /\ response = VerifyRefused
    /\ session.temp_2fa_secret # NoSecret
    /\ session.logged_in

\* verify_2fa confirmed the enrollment.
VerifyConfirmed == Resp("verify_2fa", 200, "2FA enabled successfully")

\* C11: right after verify_2fa confirmed an enrollment, a login of the same
\* (admin) account with the stored secret's code of the current step
\* succeeds: it is answered 'Login successful' and the session is logged
\* in as that account.
C11_EnrollThenLoginSucceeds ==
    (response = VerifyConfirmed /\ AdminAccount(session.user_id))
    => \A p \in Passwords :
         LET u == session.user_id
             out == AdminLoginOutcome(EmailOf(u), p,
                                      Totp(users[u].two_factor_secret, now), "none")
         IN  /\ users[u].two_factor_secret # NoSecret
             /\ out.response = LoginSuccessful
             /\ out.session.logged_in
             /\ out.session.user_id = u
             /\ out.session.pending_login_uid = None

\* C11 witness: an enrollment was just confirmed for an admin account, at
\* a time step later than the first, and the login with the stored
\* secret's fresh code is answered 'Login successful'.
C11_Witness ==
    /\ response = VerifyConfirmed
    /\ AdminAccount(session.user_id)
    /\ now > 0
    /\ AdminLoginOutcome(EmailOf(session.user_id), PasswordOf(session.user_id),
                         Totp(users[session.user_id].two_factor_secret, now),
                         "none").response = LoginSuccessful

\* C12: disable_2fa deletes the stored secret and sets two_factor_enabled
\* to FALSE on the session's account exactly when the session is logged
\* in, the account has a stored secret and the code is that secret's code
\* of the current step; in every other case (a wrong code, no stored
\* secret, a session that is not logged in, a failed store call) every
\* user document is as it was.
C12_DisableOnlyWithValidCode ==
    \A c \in CodeInputs, f \in DisableFaults :
        LET out == Disable2faOutcome(c, f)
            u == session.user_id
        IN  IF /\ ~NotAuthenticated(session)
               /\ users[u].exists
               /\ users[u].two_factor_secret # NoSecret
               /\ CurrentCode(users[u].two_factor_secret, c)
               /\ f = "none"
            THEN /\ out.response.status = 200
                 /\ out.users = [users EXCEPT ![u].two_factor_secret = NoSecret,
                                              ![u].two_factor_enabled = FALSE]
            ELSE /\ out.response.status # 200
                 /\ out.users = users

\* C12 witness: 2FA was disabled for the session's account, which was
\* enrolled before.
C12_Witness ==
    /\ response = Resp("disable_2fa", 200, "2FA disabled successfully")
    /\ session.logged_in
    /\ users[session.user_id].two_factor_secret = NoSecret
    /\ ~users[session.user_id].two_factor_enabled
    /\ users[session.user_id].lastLogin # NoTime

\* C13 as stated: at login the code of the stored secret for step t-1, t
\* or t+1 (t the current step) is accepted.
C13_LoginAcceptsAdjacentSteps ==
    [][\A u \in UIDs, p \in Passwords, d \in {-1, 0, 1} :
          (/\ AdminAccount(u)
           /\ users[u].two_factor_secret # NoSecret
           /\ admin_login(EmailOf(u), p, Totp(users[u].two_factor_secret, now + d), "none"))
          => response' = LoginSuccessful]_vars

\* C13 amended: at login there is no tolerance: a code is accepted exactly
\* when it is the code of the stored secret for the current step t; the
\* code of any other step, t-1 and t+1 included, is refused as an invalid
\* code unless it happens to equal the code of step t.
C13_LoginAcceptsCurrentStepOnly ==
    \A u \in UIDs, p \in Passwords, step \in -1..(MaxTime + 1) :
        (AdminAccount(u) /\ users[u].two_factor_secret # NoSecret)
        => LET secret == users[u].two_factor_secret
               out == AdminLoginOutcome(EmailOf(u), p, Totp(secret, step), "none")
           IN  IF Totp(secret, step) = Totp(secret, now)
               THEN out.response = LoginSuccessful
               ELSE out.response = InvalidOTP /\ out.session = session

\* C13 witness: a code was just refused at login, and in this state the
\* code of the previous step differs from the current one and is refused.
C13_Witness ==
    /\ response = InvalidOTP
    /\ now > 0
    /\ \E u \in UIDs :
          /\ AdminAccount(u)
          /\ users[u].two_factor_secret # NoSecret
          /\ session.pending_login_uid = u
          /\ Totp(users[u].two_factor_secret, now - 1) # Totp(users[u].two_factor_secret, now)
          /\ AdminLoginOutcome(EmailOf(u), PasswordOf(u),
                               Totp(users[u].two_factor_secret, now - 1),
                               "none").response = InvalidOTP

\* ====================================================================
\* Properties of logout
\* ====================================================================

\* Every endpoint of the two-factor flow, of the profile and of the
\* configuration answers 401 'Not authenticated', whatever is submitted.
AllAnswerNotAuthenticated ==
    /\ \A sec \in Secrets :
          Setup2faOutcome(sec).response = Resp("setup_2fa", 401, "Not authenticated")
    /\ \A c \in CodeInputs, f \in VerifyFaults :
          Verify2faOutcome(c, f).response = Resp("verify_2fa", 401, "Not authenticated")
    /\ \A c \in CodeInputs, f \in DisableFaults :
          Disable2faOutcome(c, f).response = Resp("disable_2fa", 401, "Not authenticated")
    /\ \A file \in ProfileFiles, f \in UploadFaults :
          UploadProfilePictureResponse(file, f)
             = Resp("upload_profile_picture", 401, "Not authenticated")
    /\ \A n \in EmergencyNumbers, f \in ConfigFaults :
          UpdateConfigurationOutcome(n, f).response
             = Resp("update_configuration", 401, "Not authenticated")

\* admin_login answered that the login succeeded: fully, or provisionally
\* for the enrollment.
LoginSucceeded == response \in {LoginSuccessful, SetupRequired}

\* Right after admin_logout the session holds nothing: no logged_in or
\* user_id, no pending_login_uid, no temp_2fa_secret, no read notification
\* ids, no viewed emergency ids, and the endpoints answer 'Not
\* authenticated'.
LogoutLeavesNothing ==
    response.op = "admin_logout"
    => session = EmptySession /\ AllAnswerNotAuthenticated

\* C14: admin_logout leaves a session that holds no logged_in or user_id,
\* no pending_login_uid, no temp_2fa_secret, no read notification ids and
\* no viewed emergency ids, and from a session that is not logged in every
\* request other than a login that succeeds leads to a state where the
\* 2FA, profile and configuration endpoints answer 'Not authenticated'.
C14_LoggedOutUntilLoginSucceeds ==
    [][/\ response'.op = "admin_logout" => session' = EmptySession
       /\ (~session.logged_in /\ ~LoginSucceeded') => AllAnswerNotAuthenticated']_vars

\* ====================================================================
\* Properties of the dashboard
\* ====================================================================

\* The four statistics cards and the case types each counts.
RateCards ==
    [medical_resolved_rate |-> {"MEDICAL"},
     fire_resolved_rate |-> {"FIRE"},
     crime_resolved_rate |-> {"CRIME"},
     disaster_resolved_rate |-> {"TYPHOON", "FLOOD", "DISASTER"}]

\* The emergency is of one of the types and was created in the 30 days
\* that end with the current day.
InWindow(e, types) ==
    /\ e.case_type \in types
    /\ e.created_at.kind \in DatedKinds
    /\ ToOrdinal(current_date) - ToOrdinal(e.created_at.date) \in 0..30

\* The dashboard was rendered.
IndexRendered == response.op = "index" /\ response.status = 200

\* C15: on a rendered dashboard each of the four resolved rates (medical,
\* fire, crime, disaster = TYPHOON, FLOOD or DISASTER) is the share of
\* RESOLVED emergencies among those of its types created in the 30-day
\* window: the resolved are at most the total, the rate lies within
\* [0, 100] percent, and it is 0 when no emergency of those types was
\* created in the window.
C15_ResolvedRateWithinBounds ==
    IndexRendered
    => \A card \in DOMAIN RateCards :
         LET total == Cardinality({n \in DOMAIN emergencies :
                                      InWindow(emergencies[n], RateCards[card])})
             resolved == Cardinality({n \in DOMAIN emergencies :
                                         /\ InWindow(emergencies[n], RateCards[card])
                                         /\ emergencies[n].status = "RESOLVED"})
             rate == response.body[card]
         IN  /\ resolved <= total
             /\ rate \in 0..1000
             /\ total = 0 => rate = 0
             /\ total > 0 => /\ rate * total <= resolved * 1000 + total
                             /\ rate * total >= resolved * 1000 - total

\* C15 witness: a rendered dashboard whose disaster rate is 50 percent and
\* whose medical rate is 0 for want of a medical emergency in the window.
C15_Witness ==
    /\ IndexRendered
    /\ response.body.disaster_resolved_rate = 500
    /\ response.body.medical_resolved_rate = 0
    /\ \E i \in DOMAIN emergencies : emergencies[i].case_type = "TYPHOON"

\* The emergencies of one of the six case types created in the year of
\* the clock.
CreatedThisYear(case_type) ==
    Cardinality({n \in DOMAIN emergencies :
                    /\ emergencies[n].case_type = case_type
                    /\ emergencies[n].created_at.kind \in DatedKinds
                    /\ emergencies[n].created_at.date.year = current_date.year})

\* The count the histogram shows for a label: 0 for a label it has not.
HistogramCount(histogram, label) ==
    IF label \in DOMAIN histogram THEN histogram[label] ELSE 0

\* C19: when every created_at is a timestamp, the dashboard is rendered and
\* its yearly histogram gives, for each of the six case types, under the
\* display label of the type, the number of emergencies of that type
\* created in the current year.
C19_YearlyHistogramCountsEveryType ==
    (/\ response.op = "index"
     /\ \A i \in DOMAIN emergencies : emergencies[i].created_at.kind = "timestamp")
    => /\ IndexRendered
       /\ \A t \in CaseTypeNames :
             HistogramCount(response.body.yearly_stats, CaseTypeValue(t))
                = CreatedThisYear(t)

\* ====================================================================
\* Properties of the reports page
\* ====================================================================

\* The reports page was rendered.
ReportsRendered == response.op = "reports_page" /\ response.status = 200

\* The value of a barangay field equals the name up to case and to the
\* white space around it.
Denotes(value, name) ==
    \/ name = "Rizal" /\ value \in {"Rizal", " rizal ", "RIZAL", " RIZAL "}
    \/ name = "Adela" /\ value \in {"Adela", "ADELA"}
    \/ name = "San Pedro" /\ value \in {"San Pedro", "San Pedro "}

RECURSIVE SumOver(_, _)
SumOver(f, S) ==
    IF S = {} THEN 0
    ELSE LET x == CHOOSE y \in S : TRUE IN f[x] + SumOver(f, S \ {x})

\* C16: the reports page maps each barangay of the list to the number of
\* users whose barangay equals it up to case and surrounding white space;
\* the counts sum to at most the number of users, and to exactly that
\* number when and only when every user matches exactly one barangay of
\* the list.
C16_BarangayCounts ==
    response.op = "reports_page"
    => LET stats == response.body.barangay_stats
       IN  /\ ReportsRendered
           /\ DOMAIN stats = Barangays
           /\ \A name \in Barangays :
                 stats[name] = Cardinality({u \in AllUsers :
                                               Denotes(users[u].barangay, name)})
           /\ SumOver(stats, Barangays) <= Cardinality(AllUsers)
           /\ SumOver(stats, Barangays) = Cardinality(AllUsers)
                <=> \A u \in AllUsers :
                       Cardinality({name \in Barangays :
                                       Denotes(users[u].barangay, name)}) = 1

\* C16 witness: a rendered reports page that counts two users for Rizal
\* whose barangay fields spell it differently.
C16_Witness ==
    /\ ReportsRendered
    /\ response.body.barangay_stats["Rizal"] = 2
    /\ users["uid1"].barangay # users["uid2"].barangay

\* The calendar months since year 0.
MonthIndex(year, month) == year * 12 + month - 1

\* The emergencies the filter of the rendered page keeps whose created_at
\* is a timestamp.
TimestampedEmergencies ==
    SelectSeq(EnrichedEmergencies(response.body.filter_barangay),
              LAMBDA e : e.created_at.kind = "timestamp")

\* C17: the monthly trend of the reports page has exactly 6 buckets, oldest
\* first; the k-th is the calendar month 6 - k months before the current
\* month, and its count is the number of the (barangay-filtered)
\* emergencies created in that calendar month.
C17_MonthlyTrendSixCalendarMonths ==
    response.op = "reports_page"
    => LET md == response.body.monthly_data
       IN  /\ Len(md) = 6
           /\ \A k \in 1..6 :
                 /\ MonthIndex(md[k].year, md[k].month)
                      = MonthIndex(current_date.year, current_date.month) - (6 - k)
                 /\ md[k].count
                      = Cardinality({n \in DOMAIN TimestampedEmergencies :
                            /\ TimestampedEmergencies[n].created_at.date.year = md[k].year
                            /\ TimestampedEmergencies[n].created_at.date.month = md[k].month})

\* C18: on every day, the 29th to 31st and the 1st included, each bucket
\* of the monthly trend is the calendar month after the one of the bucket
\* before it (buckets contiguous and disjoint, no month twice, none
\* skipped), and every emergency created from the month of the first
\* bucket to the month of the last is counted in exactly one bucket.
C18_BucketsContiguousAndDisjoint ==
    response.op = "reports_page"
    => LET md == response.body.monthly_data
           InSpan(e) ==
               MonthIndex(e.created_at.date.year, e.created_at.date.month)
                  \in MonthIndex(md[1].year, md[1].month)..MonthIndex(md[6].year, md[6].month)
       IN  /\ \A k \in 1..5 :
                 MonthIndex(md[k + 1].year, md[k + 1].month)
                    = MonthIndex(md[k].year, md[k].month) + 1
           /\ \A i \in DOMAIN TimestampedEmergencies :
                 InSpan(TimestampedEmergencies[i])
                 => Cardinality({k \in 1..6 :
                                    /\ md[k].year = TimestampedEmergencies[i].created_at.date.year
                                    /\ md[k].month = TimestampedEmergencies[i].created_at.date.month}) = 1
           /\ SumOver([k \in 1..6 |-> md[k].count], 1..6)
                 = Cardinality({n \in DOMAIN TimestampedEmergencies :
                                   InSpan(TimestampedEmergencies[n])})

\* The emergencies whose created_at is a timestamp or a string that parses.
WellFormedOnly(es) == SelectSeq(es, LAMBDA e : e.created_at.kind \notin MalformedKinds)

\* C20: an emergency whose created_at is missing or malformed (absent,
\* None, a string that does not parse, neither a string nor a timestamp)
\* makes neither page raise and is left out of the time-windowed
\* aggregates, which are those of the other emergencies: the dashboard is
\* the one of the well-formed emergencies alone, the monthly trend of the
\* reports page too, and the totals of the reports page count every
\* emergency.
C20_MalformedCreatedAtSkipped ==
    /\ response.op = "index" => response = IndexResponse(WellFormedOnly(emergencies))
    /\ response.op = "reports_page"
       => /\ ReportsRendered
          /\ response.body.monthly_data
               = MonthlyData(WellFormedOnly(EnrichedEmergencies(response.body.filter_barangay)))
          /\ response.body.total_emergencies
               = Len(EnrichedEmergencies(response.body.filter_barangay))
          /\ response.body.overall_emergencies = Len(emergencies)

\* ---------------------------------------------------------------- C21
\* The emergencies a responder request can address, and the requests that
\* the store serves.
Dispatched == {id \in DispatchedIds : EmergencyExists(emergencies, id)}

\* C21.  update_responder_status changes only the fields it is given, on
\* one entry of the named responder only: an absent status leaves the
\* status, an absent isArrived leaves isArrived, responder_id and
\* response_datetime stay on every entry, the entries of other responders,
\* the length and the order of the list stay, and so does every other field
\* of the emergency and every other emergency.
C21_UpdateChangesOnlySuppliedFields ==
    \A id \in Dispatched, r \in UIDs, s \in ResponderStatuses \cup {None},
       a \in {Absent, Given(TRUE), Given(FALSE)} :
        LET before == emergencies[id].responders
            out == UpdateResponderOutcome(emergencies, id, r, s, a, "none")
            after == out.emergencies[id].responders
        IN /\ out.response.status = 200
           /\ DOMAIN after = DOMAIN before
           /\ \A n \in DOMAIN before :
                 /\ after[n].responder_id = before[n].responder_id
                 /\ after[n].response_datetime = before[n].response_datetime
                 /\ s = None => after[n].status = before[n].status
                 /\ a = Absent => after[n].isArrived = before[n].isArrived
                 /\ before[n].responder_id # r => after[n] = before[n]
           /\ Cardinality({n \in DOMAIN before : after[n] # before[n]}) <= 1
           /\ (\E n \in DOMAIN before : before[n].responder_id = r)
                 => \E n \in DOMAIN before :
                       /\ before[n].responder_id = r
                       /\ s # None => after[n].status = s
                       /\ a # Absent => after[n].isArrived = a[1]
           /\ [out.emergencies EXCEPT ![id].responders = before] = emergencies

\* An update has been answered, and the list holds an arrived responder that
\* is still in progress before a responder that has not arrived.
C21_Witness ==
    /\ response = Resp("update_responder_in_emergency", 200,
                       "Responder status updated successfully")
    /\ Len(emergencies[1].responders) = 2
    /\ emergencies[1].responders[1].responder_id = "uid1"
    /\ emergencies[1].responders[1].isArrived
    /\ emergencies[1].responders[1].status = "IN_PROGRESS"
    /\ emergencies[1].responders[2].responder_id = "uid2"
    /\ ~emergencies[1].responders[2].isArrived

\* ---------------------------------------------------------------- C22
\* C22.  After any sequence of add_responder and update_responder_status
\* requests, the responder list of an emergency holds at most one entry per
\* responder id.
C22_OneEntryPerResponder ==
    \A id \in DOMAIN emergencies :
        \A n \in DOMAIN emergencies[id].responders,
           m \in DOMAIN emergencies[id].responders :
            emergencies[id].responders[n].responder_id
                = emergencies[id].responders[m].responder_id
            => n = m

\* ---------------------------------------------------------------- C23
\* The alerts that have a document.
StoredAlerts == {id \in AlertIds : alerts[id].exists}

\* C23.  Removing a person by the user id U from a list of an alert removes
\* every entry of the list whose userId is U, whatever its date_created,
\* and no other entry; so a list that held only entries of U is empty
\* after the removal.
C23_RemovalByUserId ==
    \A id \in StoredAlerts, l \in ListNames, u \in UIDs :
        RemovePersonOutcome(alerts, id, l, u, "none").alerts[id][l]
            = SelectSeq(alerts[id][l], LAMBDA p : p.userId # u)

\* ---------------------------------------------------------------- C24
\* C24.  User.create_user is all-or-nothing.  When auth.create_user raises,
\* nothing is written and nothing is deleted.  When the account is created
\* and the write of the document raises, auth.delete_user is called once,
\* the error of the write is raised whether or not the delete failed, no
\* document is written, and when the delete succeeded the identity provider
\* is as it was: no account without a document is left.  Otherwise both
\* the account and the document exist.
C24_CreateUserAllOrNothing ==
    \A u \in UIDs, r \in Roles, f \in CreateUserFaults, d \in BOOLEAN :
        LET out == CreateUserOutcome(auth, users, u, r, f, d)
            deletes == Cardinality({n \in DOMAIN out.identity_log :
                                        out.identity_log[n] = "delete_user"})
        IN /\ (f = "identity" \/ u \in auth)
                 => /\ out.raised = "auth.create_user"
                    /\ out.auth = auth
                    /\ out.users = users
                    /\ deletes = 0
           /\ (f = "store_write" /\ u \notin auth)
                 => /\ out.raised = "cls.create"
                    /\ deletes = 1
                    /\ out.users = users
                    /\ ~d => out.auth = auth
           /\ (f = "none" /\ u \notin auth)
                 => /\ out.raised = None
                    /\ deletes = 0
                    /\ u \in out.auth
                    /\ out.users[u].exists

\* A request whose write failed has been answered: the account was created
\* and deleted again, and neither an account nor a document is left.
C24_Witness ==
    /\ response = Unhandled("add_api_user")
    /\ identity_log = <<"create_user", "delete_user">>
    /\ auth = {}
    /\ \A u \in UIDs : ~users[u].exists

\* ---------------------------------------------------------------- C25
\* C25.  The responder list is read, changed and written back with no
\* synchronisation, and the last writer wins: after a write, the stored
\* list is exactly the list the writing call built from what it had read.
\* So when two add_responder calls read the same list before either
\* writes, the stored list is the list read plus the later writer's entry,
\* and the earlier writer's entry is lost; when the later writer read what
\* the earlier one wrote, both entries are in the list.
C25_LastWriterWins ==
    \A w \in Workers :
        calls[w].latest =>
            LET stored == emergencies[calls[w].emergency_id].responders IN
            /\ stored = ChangedList(calls[w].op, calls[w].seen, calls[w].responder_id)
            /\ \A v \in Workers \ {w} :
                  (/\ calls[v].pc = "written"
                   /\ calls[v].op = "add_responder"
                   /\ calls[w].op = "add_responder")
                  => /\ calls[v].seen = calls[w].seen
                           => /\ Len(stored) = Len(calls[w].seen) + 1
                              /\ stored[Len(stored)].responder_id = calls[w].responder_id
                     /\ calls[w].seen = calls[v].responders
                           => /\ Len(stored) = Len(calls[v].seen) + 2
                              /\ stored[Len(stored) - 1].responder_id
                                    = calls[v].responder_id
                              /\ stored[Len(stored)].responder_id = calls[w].responder_id

\* Two workers added two responders to the empty list, both read it empty,
\* both have written, and the list holds the entry of the later writer only.
C25_Witness ==
    /\ calls["w1"] = Call("written", "add_responder", 1, "uid1", <<>>,
                          AddResponder(<<>>, ResponderData("uid1", None, Absent)),
                          FALSE)
    /\ calls["w2"].pc = "written"
    /\ calls["w2"].latest
    /\ calls["w2"].op = "add_responder"
    /\ calls["w2"].responder_id = "uid2"
    /\ calls["w2"].seen = <<>>
    /\ Len(emergencies[1].responders) = 1
    /\ emergencies[1].responders[1].responder_id = "uid2"

\* ---------------------------------------------------------------- C26
\* C26.  In every reachable state the case_type of each emergency is one
\* of the six CaseType names and its status is one of the five
\* EmergencyStatus names, whatever values the requests carried.
C26_EnumTokensOnly ==
    \A id \in DOMAIN emergencies :
        /\ emergencies[id].case_type \in CaseTypeNames
        /\ emergencies[id].status \in EmergencyStatusNames

\* ---------------------------------------------------------------- C27
\* C27.  A failing adapter call never leaves a route as an exception nobody
\* catches: a request of the emergency routes during which a call on the
\* record store raises is answered by the handler itself.
C27_AdapterFailuresAnswered ==
    [][\A f \in EmergencyFaults \ {"none"} :
          /\ \A u \in RequestUserIds, t \in RequestCaseTypes \cup {None},
                s \in RequestStatuses \cup {None} :
                add_emergency(u, t, s, f) => response' # Unhandled("add_emergency")
          /\ \A id \in RequestEmergencyIds, t \in RequestCaseTypes \cup {None},
                s \in RequestStatuses \cup {None} :
                update_emergency(id, t, s, f)
                    => response' # Unhandled("update_emergency")
          /\ \A id \in RequestEmergencyIds :
                (f = "store_read" /\ get_emergency(id, f))
                    => response' # Unhandled("get_emergency")]_vars

\* ---------------------------------------------------------------- C28
\* C28.  After any sequence of add-person and remove-person requests, each
\* of the three lists of an alert holds at most one entry per user id.
C28_OneEntryPerUser ==
    \A id \in StoredAlerts, l \in ListNames :
        \A n \in DOMAIN alerts[id][l], m \in DOMAIN alerts[id][l] :
            alerts[id][l][n].userId = alerts[id][l][m].userId => n = m

\* ---------------------------------------------------------------- C29
\* C29.  admin_login accepts a username in place of the e-mail: when the
\* submitted identifier holds no '@' and is the username of an existing
\* account, the login proceeds as if the e-mail of that account had been
\* submitted, with the same response and the same session.
C29_UsernameLogsInAsEmail ==
    [][\A u \in UIDs, p \in Passwords, c \in CodeInputs :
          (/\ users[u].exists
           /\ users[u].username \in Usernames
           /\ admin_login(users[u].username, p, c, "none"))
          => /\ response' = AdminLoginOutcome(users[u].email, p, c, "none").response
             /\ session' = AdminLoginOutcome(users[u].email, p, c, "none").session]_vars

\* ---------------------------------------------------------------- C30
\* C30.  toggle_siren changes exactly one flag.  For typhoon, flood or
\* earthquake it writes the negation of the flag's current value, an absent
\* flag being read as false, and leaves the other two flags as they are;
\* toggling the same siren again restores the value.  For any other type,
\* and when the realtime database fails, it writes nothing.
C30_ToggleChangesOneFlag ==
    \A t \in RequestSirenTypes :
        LET out == ToggleSirenOutcome(sirens, t, "none")
            again == ToggleSirenOutcome(out.sirens, t, "none")
        IN /\ t \in SirenTypes
                 => /\ out.response.status = 200
                    /\ out.sirens[t] = Given(~CurrentStatus(sirens[t]))
                    /\ \A o \in SirenTypes \ {t} : out.sirens[o] = sirens[o]
                    /\ CurrentStatus(again.sirens[t]) = CurrentStatus(sirens[t])
                    /\ \A o \in SirenTypes \ {t} : again.sirens[o] = sirens[o]
           /\ t \notin SirenTypes
                 => /\ out.response.status = 400
                    /\ out.sirens = sirens
           /\ \A f \in SirenFaults \ {"none"} :
                 ToggleSirenOutcome(sirens, t, f).sirens = sirens

\* The flood siren has been toggled off again while the typhoon siren is on
\* and the earthquake flag has never been written.
C30_Witness ==
    /\ response = Resp("toggle_siren", 200,
                       [siren_type |-> "flood", previous_status |-> TRUE,
                        new_status |-> FALSE])
    /\ sirens = [t \in SirenTypes |->
                    CASE t = "flood" -> Given(FALSE)
                      [] t = "typhoon" -> Given(TRUE)
                      [] t = "earthquake" -> Absent]

====
